---- MODULE Spec2Model ----
(***************************************************************************)
(* A state-machine model of the proof-logging MiniSat core                 *)
(* (src/core/Solver.cc): clause addition, two-watched-literal propagation, *)
(* first-UIP analysis, the CDCL search loop, clause-database reduction,    *)
(* the proof log, and the backward validator.                              *)
(*                                                                         *)
(* Conventions.  A variable is a number in 1..NVars and a literal is the   *)
(* non-zero integer +v or -v (DIMACS).  A clause reference (CRef) is an    *)
(* index into the arena ca; CRef_Undef is 0.  C++ vectors are sequences;   *)
(* a C++ index i is position i+1 here, while qhead, trail_lim and start    *)
(* keep their C++ values (they are counts of trail entries).  A method of  *)
(* Solver is an operator from a solver record (one field per member) to a  *)
(* solver record; an action packs the variables into the record, applies   *)
(* the operator and unpacks the result.  A violated assert() is recorded   *)
(* in err (the first one wins) and the code goes on as an NDEBUG build     *)
(* would wherever that is defined.                                         *)
(***************************************************************************)
EXTENDS Integers, Sequences, FiniteSets, TLC

\* ------------------------------------------------------------------------
\* Bounds of the model
\* ------------------------------------------------------------------------
NVars == 5
MaxClauses == 6
MaxConflicts == 3
MaxSolves == 2


\* ------------------------------------------------------------------------
\* SolverTypes: literals, lifted booleans, partition ranges, clauses
\* ------------------------------------------------------------------------
CRef_Undef == 0
lit_Undef == 0

l_True == "T"
l_False == "F"
l_Undef == "U"

var(l) == IF l < 0 THEN 0 - l ELSE l
sign(l) == l < 0
mkLit(v, sgn) == IF sgn THEN 0 - v ELSE v
\* Lit::x, the integer the literals are ordered by
toInt(l) == 2 * (var(l) - 1) + (IF sign(l) THEN 1 ELSE 0)

Min(a, b) == IF a < b THEN a ELSE b
Max(a, b) == IF a > b THEN a ELSE b

\* Range(): the undefined range has lo > hi
MaxPart == 2
RangeUndef == [lo |-> MaxPart + 1, hi |-> 0]
RangeOf(p) == [lo |-> p, hi |-> p]
undef(r) == r.lo > r.hi
singleton(r) == r.lo = r.hi
join(a, b) == [lo |-> Min(a.lo, b.lo), hi |-> Max(a.hi, b.hi)]

mkClause(ps, learnt) ==
  [lits |-> ps, learnt |-> learnt, mark |-> 0, core |-> FALSE,
   part |-> RangeUndef, freed |-> FALSE, attached |-> FALSE]

Watcher(cr, p) == [cref |-> cr, blocker |-> p]

Fail(S, msg) == [S EXCEPT !.err = IF @ = "" THEN msg ELSE @]

\* ------------------------------------------------------------------------
\* Solver.h accessors
\* ------------------------------------------------------------------------
value(S, l) ==
  LET a == S.assigns[var(l)]
  IN  IF a = l_Undef THEN l_Undef
      ELSE IF (a = l_True) = (~sign(l)) THEN l_True ELSE l_False

reason(S, x) == S.vardata[x].reason
level(S, x) == S.vardata[x].level
decisionLevel(S) == Len(S.trail_lim)
nVars(S) == Len(S.vardata)

nAssigns(S) == Len(S.trail)
nClauses(S) == Len(S.clauses)

locked(S, cr) ==
  LET c == S.ca[cr]
  IN  /\ value(S, c.lits[1]) = l_True
      /\ reason(S, var(c.lits[1])) = cr

newDecisionLevel(S) == [S EXCEPT !.trail_lim = Append(@, Len(S.trail))]

\* decision[x]: every variable is created decision-eligible
decision(x) == TRUE

insertVarOrder(S, x) ==
  IF decision(x) THEN [S EXCEPT !.order_heap = @ \cup {x}] ELSE S

\* ------------------------------------------------------------------------
\* uncheckedEnqueue / enqueue
\* ------------------------------------------------------------------------
\* join of c.part() with the partitions of the reasons of c[1..]
TailPart(S, c) ==
  LET rs == {reason(S, var(c.lits[i])) : i \in 2..Len(c.lits)} \ {CRef_Undef}
      ps == {c.part} \cup {S.ca[r].part : r \in rs}
      los == {q.lo : q \in ps}
      his == {q.hi : q \in ps}
  IN  [lo |-> CHOOSE a \in los : \A b \in los : a <= b,
       hi |-> CHOOSE a \in his : \A b \in his : a >= b]

uncheckedEnqueue(S, p, from) ==
  LET x  == var(p)
      S0 == IF value(S, p) # l_Undef
            THEN Fail(S, "uncheckedEnqueue: value(p) == l_Undef") ELSE S
      S1 == [S0 EXCEPT !.assigns[x] = IF sign(p) THEN l_False ELSE l_True,
                       !.vardata[x] = [reason |-> from, level |-> decisionLevel(S)],
                       !.trail = Append(@, p)]
  IN  IF S.log_proof /\ decisionLevel(S) = 0
      THEN IF from = CRef_Undef
           THEN Fail(S1, "uncheckedEnqueue: level-0 literal without a reason")
           ELSE LET c  == S1.ca[from]
                    S2 == IF undef(c.part)
                          THEN Fail(S1, "uncheckedEnqueue: !c.part().undef()") ELSE S1
                    S3 == IF \E i \in 2..Len(c.lits) :
                                reason(S1, var(c.lits[i])) = CRef_Undef
                          THEN Fail(S2, "uncheckedEnqueue: ca[CRef_Undef] read") ELSE S2
                IN  [S3 EXCEPT !.trail_part[x] = TailPart(S1, c)]
      ELSE S1

\* enqueue(p, from): false on a False literal, no-op on a True one
enqueue(S, p, from) ==
  IF value(S, p) # l_Undef
  THEN [st |-> S, ret |-> value(S, p) # l_False]
  ELSE [st |-> uncheckedEnqueue(S, p, from), ret |-> TRUE]

\* ------------------------------------------------------------------------
\* Watches: attach, lazy detach, cleanAll.  The field attached of a clause
\* records that attachClause was called for it and detachClause was not
\* called since; the code keeps no such flag and reads none.
\* ------------------------------------------------------------------------
\* the watchers of clause cr in the list of literal l
watchersOf(S, l, cr) == {i \in 1..Len(S.watches[l]) : S.watches[l][i].cref = cr}

\* the clauses attached and not deleted
isLiveAttached(S, cr) == S.ca[cr].attached /\ S.ca[cr].mark = 0 /\ Len(S.ca[cr].lits) > 1
liveAttached(S) == {cr \in DOMAIN S.ca : isLiveAttached(S, cr)}

\* every live attached clause has one watcher in the list of ~c[0], one in
\* the list of ~c[1] and none in another list: it has a watcher in each of
\* the two lists, and a watcher of it is in one of the two and is the only
\* one of the clause in its list
twoWatchers(S) ==
  /\ \A cr \in DOMAIN S.ca :
        isLiveAttached(S, cr) =>
           /\ S.ca[cr].lits[1] # S.ca[cr].lits[2]
           /\ \E i \in 1..Len(S.watches[0 - S.ca[cr].lits[1]]) :
                 S.watches[0 - S.ca[cr].lits[1]][i].cref = cr
           /\ \E i \in 1..Len(S.watches[0 - S.ca[cr].lits[2]]) :
                 S.watches[0 - S.ca[cr].lits[2]][i].cref = cr
  /\ \A l \in DOMAIN S.watches : \A i \in 1..Len(S.watches[l]) :
        isLiveAttached(S, S.watches[l][i].cref) =>
           /\ l = 0 - S.ca[S.watches[l][i].cref].lits[1] \/ l = 0 - S.ca[S.watches[l][i].cref].lits[2]
           /\ \A j \in 1..Len(S.watches[l]) :
                 j # i => S.watches[l][j].cref # S.watches[l][i].cref

\* every live attached clause (every core one if coreOnly) has a True
\* literal or its two watched literals unassigned
settled(S, coreOnly) ==
  \A cr \in DOMAIN S.ca :
     \/ ~isLiveAttached(S, cr)
     \/ coreOnly /\ ~S.ca[cr].core
     \/ \E i \in 1..Len(S.ca[cr].lits) : value(S, S.ca[cr].lits[i]) = l_True
     \/ value(S, S.ca[cr].lits[1]) = l_Undef /\ value(S, S.ca[cr].lits[2]) = l_Undef

\* trail_lim is non-decreasing and within the trail, a literal at or above
\* trail_lim[k] has a level of at least k+1 (k from 0) and a literal below
\* trail_lim[0] has level 0
levelsMatch(S) ==
  /\ \A k \in 1..Len(S.trail_lim) :
        /\ S.trail_lim[k] >= 0 /\ S.trail_lim[k] <= Len(S.trail)
        /\ k > 1 => S.trail_lim[k - 1] <= S.trail_lim[k]
        /\ \A i \in (S.trail_lim[k] + 1)..Len(S.trail) : level(S, var(S.trail[i])) >= k
  /\ \A i \in 1..Len(S.trail) :
        (S.trail_lim = << >> \/ i <= S.trail_lim[1]) => level(S, var(S.trail[i])) = 0

\* seen[v] == 0 for every variable v
seenClear(S) == \A x \in 1..nVars(S) : S.seen[x] = 0

\* broken collects what was observed not to hold at the return of
\* attachClause, propagate, validateLemma, traverseProof and replay and at
\* the call of pickBranchLit; the code reads none of it
Observe(S, holds, what) == IF holds THEN S ELSE [S EXCEPT !.broken = @ \cup {what}]

\* assert (holds), with the failure observed as well
Required(S, holds, what) == IF holds THEN S ELSE Fail(Observe(S, FALSE, what), what)

attachClause(S, cr) ==
  LET c  == S.ca[cr]
      S0 == IF Len(c.lits) > 1 THEN S ELSE Fail(S, "attachClause: c.size() > 1")
  IN  IF Len(c.lits) < 2 THEN S0
      ELSE LET a == 0 - c.lits[1]
               b == 0 - c.lits[2]
               w1 == [S0.watches EXCEPT ![a] = Append(@, Watcher(cr, c.lits[2]))]
               w2 == [w1 EXCEPT ![b] = Append(@, Watcher(cr, c.lits[1]))]
               Attached(T) == Observe(T, twoWatchers(T), "attachClause: watchers")
           IN  Attached([S0 EXCEPT !.watches = w2,
                                   !.ca[cr].attached = TRUE,
                                   !.learnts_literals = IF c.learnt THEN @ + Len(c.lits) ELSE @,
                                   !.clauses_literals = IF c.learnt THEN @ ELSE @ + Len(c.lits)])

\* detachClause(cr, strict = false): smudge both lists
detachClause(S, cr) ==
  LET c  == S.ca[cr]
      S0 == IF Len(c.lits) > 1 THEN S ELSE Fail(S, "detachClause: c.size() > 1")
  IN  IF Len(c.lits) < 2 THEN S0
      ELSE [S0 EXCEPT !.dirty = @ \cup {0 - c.lits[1], 0 - c.lits[2]},
                      !.ca[cr].attached = FALSE,
                      !.learnts_literals = IF c.learnt THEN @ - Len(c.lits) ELSE @,
                      !.clauses_literals = IF c.learnt THEN @ ELSE @ - Len(c.lits)]

RECURSIVE FilterLive(_, _)
FilterLive(ca_, ws) ==
  IF ws = << >> THEN << >>
  ELSE IF ca_[Head(ws).cref].mark = 1 THEN FilterLive(ca_, Tail(ws))
       ELSE << Head(ws) >> \o FilterLive(ca_, Tail(ws))

\* OccLists::cleanAll with WatcherDeleted: drop watchers of mark-1 clauses
\* from every smudged list
cleanAll(S) ==
  [S EXCEPT !.watches = [l \in DOMAIN S.watches |-> IF l \in S.dirty
                                         THEN FilterLive(S.ca, S.watches[l])
                                         ELSE S.watches[l]],
            !.dirty = {}]

\* ------------------------------------------------------------------------
\* propagate
\* ------------------------------------------------------------------------
\* Variant of FindWatch that finds no literal to watch
FindWatch_none(S, lits, k) == 0

RECURSIVE FindWatch(_, _, _)
FindWatch(S, lits, k) ==
  IF k > Len(lits) THEN 0
  ELSE IF value(S, lits[k]) # l_False THEN k
       ELSE FindWatch(S, lits, k + 1)

RECURSIVE PropWatches(_, _, _, _, _, _)
PropWatches(S, p, ws, i, kept, coreOnly) ==
  IF i > Len(ws)
  THEN [st |-> [S EXCEPT !.watches[p] = kept], confl |-> CRef_Undef]
  ELSE
    LET w == ws[i] IN
    IF value(S, w.blocker) = l_True
    THEN PropWatches(S, p, ws, i + 1, Append(kept, w), coreOnly)
    ELSE
      LET cr == w.cref
          c0 == S.ca[cr]
      IN
      IF coreOnly /\ ~c0.core
      THEN PropWatches(S, p, ws, i + 1, Append(kept, w), coreOnly)
      ELSE
        LET false_lit == 0 - p
            lits1 == IF c0.lits[1] = false_lit
                     THEN [c0.lits EXCEPT ![1] = c0.lits[2], ![2] = false_lit]
                     ELSE c0.lits
            Sa    == IF lits1[2] = false_lit THEN S
                     ELSE Fail(S, "propagate: c[1] == false_lit")
            S1    == [Sa EXCEPT !.ca[cr].lits = lits1]
            first == lits1[1]
            w2    == Watcher(cr, first)
        IN
        IF first # w.blocker /\ value(S1, first) = l_True
        THEN PropWatches(S1, p, ws, i + 1, Append(kept, w2), coreOnly)
        ELSE
          LET k == FindWatch(S1, lits1, 3) IN
          IF k # 0
          THEN LET lits2 == [lits1 EXCEPT ![2] = lits1[k], ![k] = false_lit]
                   S2 == [S1 EXCEPT !.ca[cr].lits = lits2,
                                    !.watches[0 - lits2[2]] = Append(@, w2)]
               IN  PropWatches(S2, p, ws, i + 1, kept, coreOnly)
          ELSE IF value(S1, first) = l_False
          THEN [st |-> [S1 EXCEPT !.qhead = Len(S1.trail),
                                  !.watches[p] = kept \o << w2 >>
                                                 \o SubSeq(ws, i + 1, Len(ws))],
                confl |-> cr]
          ELSE PropWatches(uncheckedEnqueue(S1, first, cr), p, ws, i + 1,
                           Append(kept, w2), coreOnly)

\* Variant of PropLoop that visits the watchers of one literal and then
\* takes the queue as empty
PropLoop_oneLiteral(S, coreOnly) ==
  IF S.qhead >= Len(S.trail)
  THEN [st |-> S, confl |-> CRef_Undef]
  ELSE LET p  == S.trail[S.qhead + 1]
           S1 == [S EXCEPT !.qhead = @ + 1, !.simpDB_props = @ - 1]
           Done(r) == [st |-> [r.st EXCEPT !.qhead = Len(r.st.trail)], confl |-> r.confl]
       IN  Done(PropWatches(S1, p, S1.watches[p], 1, << >>, coreOnly))

RECURSIVE PropLoop(_, _)
PropLoop(S, coreOnly) ==
  IF S.qhead >= Len(S.trail)
  THEN [st |-> S, confl |-> CRef_Undef]
  ELSE LET p  == S.trail[S.qhead + 1]
           S1 == [S EXCEPT !.qhead = @ + 1, !.simpDB_props = @ - 1]
           r  == PropWatches(S1, p, S1.watches[p], 1, << >>, coreOnly)
       IN  IF r.confl # CRef_Undef THEN r ELSE PropLoop(r.st, coreOnly)

\* what holds of the watches and of the clauses when propagate returns
PropReturn(r, coreOnly) ==
  LET Watches(T) == Observe(Observe(T, twoWatchers(T), "propagate: watchers"),
                            levelsMatch(T), "propagate: levels")
      All(T)  == Observe(T, r.confl # CRef_Undef \/ settled(T, FALSE),
                         IF coreOnly THEN "propagate(true): clause" ELSE "propagate(): clause")
      Core(T) == IF coreOnly
                 THEN Observe(T, r.confl # CRef_Undef \/ settled(T, TRUE),
                              "propagate(true): core clause")
                 ELSE T
  IN  [st |-> Core(All(Watches(r.st))), confl |-> r.confl]

propagate(S, coreOnly) == PropReturn(PropLoop(cleanAll(S), coreOnly), coreOnly)

\* ------------------------------------------------------------------------
\* cancelUntil
\* ------------------------------------------------------------------------
\* Variant of cancelUntil that leaves trail_lim as it is
cancelUntil_keepLim(S, lvl) ==
  IF decisionLevel(S) > lvl
  THEN LET lim  == S.trail_lim[lvl + 1]
           und  == {var(S.trail[c]) : c \in (lim + 1)..Len(S.trail)}
       IN  [S EXCEPT !.assigns = [x \in 1..nVars(S) |-> IF x \in und THEN l_Undef ELSE @[x]],
                     !.order_heap = @ \cup {x \in und : decision(x)},
                     !.qhead = lim,
                     !.trail = SubSeq(@, 1, lim)]
  ELSE S

\* Variant of cancelUntil that saves no phase (as with phase_saving = 0)
cancelUntil_noPhase(S, lvl) ==
  IF decisionLevel(S) > lvl
  THEN LET lim  == S.trail_lim[lvl + 1]
           und  == {var(S.trail[c]) : c \in (lim + 1)..Len(S.trail)}
       IN  [S EXCEPT !.assigns = [x \in 1..nVars(S) |-> IF x \in und THEN l_Undef ELSE @[x]],
                     !.order_heap = @ \cup {x \in und : decision(x)},
                     !.qhead = lim,
                     !.trail = SubSeq(@, 1, lim),
                     !.trail_lim = SubSeq(@, 1, lvl)]
  ELSE S

cancelUntil(S, lvl) ==
  IF decisionLevel(S) > lvl
  THEN LET lim  == S.trail_lim[lvl + 1]
           last == S.trail_lim[Len(S.trail_lim)]
           idxs == (lim + 1)..Len(S.trail)
           und  == {var(S.trail[c]) : c \in idxs}
           \* the loop runs from the top of the trail down: the lowest
           \* index of a variable writes last
           low(x) == CHOOSE c \in idxs : /\ var(S.trail[c]) = x
                                         /\ \A d \in idxs : var(S.trail[d]) = x => c <= d
           saves(c) == S.phase_saving > 1 \/ (S.phase_saving = 1 /\ c - 1 > last)
       IN  [S EXCEPT !.assigns = [x \in 1..nVars(S) |-> IF x \in und THEN l_Undef ELSE @[x]],
                     !.polarity = [x \in 1..nVars(S) |->
                                     IF x \in und /\ \E c \in idxs :
                                           var(S.trail[c]) = x /\ saves(c)
                                     THEN sign(S.trail[
                                            CHOOSE c \in idxs :
                                              /\ var(S.trail[c]) = x /\ saves(c)
                                              /\ \A d \in idxs :
                                                   (var(S.trail[d]) = x /\ saves(d)) => c <= d])
                                     ELSE @[x]],
                     !.order_heap = @ \cup {x \in und : decision(x)},
                     !.qhead = lim,
                     !.trail = SubSeq(@, 1, lim),
                     !.trail_lim = SubSeq(@, 1, lvl)]
  ELSE S

\* ------------------------------------------------------------------------
\* addClause_
\* ------------------------------------------------------------------------
RECURSIVE InsertLit(_, _)
InsertLit(l, s) ==
  IF s = << >> THEN << l >>
  ELSE IF toInt(l) <= toInt(Head(s)) THEN << l >> \o s
       ELSE << Head(s) >> \o InsertLit(l, Tail(s))

RECURSIVE sort(_)
sort(ps) == IF ps = << >> THEN << >> ELSE InsertLit(Head(ps), sort(Tail(ps)))

\* the duplicate-removal loop; keepFalse is log_proof.  sat: the early
\* 'return true' (a True literal or a complementary pair)
RECURSIVE Dedup(_, _, _, _, _, _)
Dedup(S, ps, i, p, out, keepFalse) ==
  IF i > Len(ps) THEN [sat |-> FALSE, ps |-> out]
  ELSE IF value(S, ps[i]) = l_True \/ ps[i] = 0 - p
       THEN [sat |-> TRUE, ps |-> out]
       ELSE IF (keepFalse \/ value(S, ps[i]) # l_False) /\ ps[i] # p
            THEN Dedup(S, ps, i + 1, ps[i], Append(out, ps[i]), keepFalse)
            ELSE Dedup(S, ps, i + 1, p, out, keepFalse)

\* Variant of MoveFalse that leaves the literals where they are
MoveFalse_none(S, ps, i, sz) == ps

\* 'move false literals to the end' (i is the C++ index)
RECURSIVE MoveFalse(_, _, _, _)
MoveFalse(S, ps, i, sz) ==
  IF i >= sz THEN ps
  ELSE IF value(S, ps[i + 1]) = l_False
       THEN MoveFalse(S, [ps EXCEPT ![i + 1] = ps[sz], ![sz] = ps[i + 1]], i, sz - 1)
       ELSE MoveFalse(S, ps, i + 1, sz)

\* ca.alloc(ps, learnt): the new reference is Len(S.ca) + 1
alloc(S, ps, learnt) == [S EXCEPT !.ca = Append(@, mkClause(ps, learnt))]

JoinPartInfo(S, ps, part) ==
  IF singleton(part)
  THEN [S EXCEPT !.partInfo = [x \in 1..nVars(S) |->
           IF \E i \in 1..Len(ps) : var(ps[i]) = x THEN join(@[x], part) ELSE @[x]]]
  ELSE S

addClause_(S, ps_in, part) ==
  LET Checked(T) ==
        IF ~T.log_proof \/ ~undef(part) THEN T
        ELSE Fail(T, "addClause_: !log_proof || !part.undef ()")
      Entry(T) ==
        Checked(IF decisionLevel(T) = 0 THEN T
                ELSE Fail(T, "addClause_: decisionLevel() == 0"))
      \* the clause is allocated in partition part
      Alloc(T, ps, cr) == [alloc(T, ps, FALSE) EXCEPT !.ca[cr].part = join(@, part)]
      Stored(T, ps, cr) == [Alloc(T, ps, cr) EXCEPT !.clauses = Append(@, cr),
                                                    !.totalPart = join(@, part)]
      Propagated(r) == [st |-> [r.st EXCEPT !.ok = (r.confl = CRef_Undef)],
                        ret |-> r.confl = CRef_Undef]
      Unit(T, ps, cr) ==
        IF T.log_proof THEN uncheckedEnqueue(Stored(T, ps, cr), ps[1], cr)
        ELSE uncheckedEnqueue(T, ps[1], CRef_Undef)
      Add(T, ps, cr) ==
        IF Len(ps) = 0 THEN [st |-> [T EXCEPT !.ok = FALSE], ret |-> FALSE]
        ELSE IF T.log_proof /\ value(T, ps[1]) = l_False
        THEN \* the conflict clause: the last clause of the proof
             [st |-> [JoinPartInfo([Alloc(T, ps, cr) EXCEPT !.proof = Append(@, cr)],
                                   ps, part)
                        EXCEPT !.ok = FALSE],
              ret |-> FALSE]
        ELSE IF Len(ps) = 1 \/ (T.log_proof /\ value(T, ps[2]) = l_False)
        THEN Propagated(propagate(JoinPartInfo(Unit(T, ps, cr), ps, part), FALSE))
        ELSE [st |-> JoinPartInfo(attachClause(Stored(T, ps, cr), cr), ps, part),
              ret |-> TRUE]
      Ordered(T, d) ==
        IF d.sat THEN [st |-> T, ret |-> TRUE]
        ELSE Add(T, IF T.log_proof THEN MoveFalse(T, d.ps, 0, Len(d.ps)) ELSE d.ps,
                 Len(T.ca) + 1)
      Body(T) ==
        IF ~T.ok THEN [st |-> T, ret |-> FALSE]
        ELSE Ordered(T, Dedup(T, sort(ps_in), 1, lit_Undef, << >>, T.log_proof))
  IN  Body(Entry(S))

\* ------------------------------------------------------------------------
\* analyze, litRedundant, analyzeFinal
\* ------------------------------------------------------------------------
\* An analysis works on a record A: seen, pathC, out (out_learnt[1..]),
\* part, toclear (analyze_toclear), err.
AFail(A, msg) == [A EXCEPT !.err = IF @ = "" THEN msg ELSE @]

\* abstractLevel(x) = 1 << (level(x) & 31); a mask is the set of its bits
abstractLevel(S, x) == level(S, x) % 32

\* Variant of AnalyzeLits without the test level(var(q)) > 0: literals of
\* level 0 are collected as well
RECURSIVE AnalyzeLits_anyLevel(_, _, _, _)
AnalyzeLits_anyLevel(S, A, lits, j) ==
  IF j > Len(lits) THEN A
  ELSE LET q == lits[j]
           x == var(q)
       IN  IF A.seen[x] = 0
           THEN AnalyzeLits_anyLevel(S,
                  [A EXCEPT !.seen[x] = 1,
                            !.pathC = IF level(S, x) >= decisionLevel(S)
                                      THEN @ + 1 ELSE @,
                            !.out = IF level(S, x) >= decisionLevel(S)
                                    THEN @ ELSE Append(@, q)],
                  lits, j + 1)
           ELSE AnalyzeLits_anyLevel(S, A, lits, j + 1)

\* Variant of AnalyzeLits that marks the literals below the conflict level
\* as seen without pushing them to out_learnt
RECURSIVE AnalyzeLits_noLower(_, _, _, _)
AnalyzeLits_noLower(S, A, lits, j) ==
  IF j > Len(lits) THEN A
  ELSE LET q == lits[j]
           x == var(q)
       IN  IF A.seen[x] = 0 /\ level(S, x) > 0
           THEN AnalyzeLits_noLower(S,
                  [A EXCEPT !.seen[x] = 1,
                            !.pathC = IF level(S, x) >= decisionLevel(S)
                                      THEN @ + 1 ELSE @],
                  lits, j + 1)
           ELSE AnalyzeLits_noLower(S, A, lits, j + 1)

\* the loop over the literals of the clause being resolved
RECURSIVE AnalyzeLits(_, _, _, _)
AnalyzeLits(S, A, lits, j) ==
  IF j > Len(lits) THEN A
  ELSE LET q == lits[j]
           x == var(q)
       IN  IF A.seen[x] = 0
           THEN IF level(S, x) > 0
                THEN AnalyzeLits(S,
                       [A EXCEPT !.seen[x] = 1,
                                 !.pathC = IF level(S, x) >= decisionLevel(S)
                                           THEN @ + 1 ELSE @,
                                 !.out = IF level(S, x) >= decisionLevel(S)
                                         THEN @ ELSE Append(@, q)],
                       lits, j + 1)
                ELSE IF S.log_proof
                     THEN AnalyzeLits(S,
                            [(IF undef(S.trail_part[x])
                              THEN AFail(A, "analyze: !trail_part[var (q)].undef ()")
                              ELSE A)
                             EXCEPT !.part = join(@, S.trail_part[x])],
                            lits, j + 1)
                     ELSE AnalyzeLits(S, A, lits, j + 1)
           ELSE AnalyzeLits(S, A, lits, j + 1)

\* the do-while loop; index is the position the backward scan starts at
RECURSIVE AnalyzeLoop(_, _, _, _, _)
AnalyzeLoop(S, A, confl, p, index) ==
  IF confl = CRef_Undef
  THEN [a |-> AFail(A, "analyze: confl != CRef_Undef"), p |-> p]
  ELSE LET c  == S.ca[confl]
           A1 == IF S.log_proof THEN [A EXCEPT !.part = join(@, c.part)] ELSE A
           A2 == AnalyzeLits(S, A1, c.lits, IF p = lit_Undef THEN 1 ELSE 2)
           hits == {i \in 1..index : A2.seen[var(S.trail[i])] = 1}
       IN  IF hits = {}
           THEN [a |-> AFail(A2, "analyze: scan runs below the trail"), p |-> p]
           ELSE LET idx == CHOOSE i \in hits : \A k \in hits : k <= i
                    p2  == S.trail[idx]
                    A3  == [A2 EXCEPT !.seen[var(p2)] = 0, !.pathC = @ - 1]
                IN  IF A3.pathC > 0
                    THEN AnalyzeLoop(S, A3, reason(S, var(p2)), p2, idx - 1)
                    ELSE [a |-> A3, p |-> p2]

\* litRedundant: the loop over c[1..] of one reason clause.  fail: the
\* 'return false' branch was taken.
RECURSIVE LRLits(_, _, _, _, _, _, _)
LRLits(S, A, stack, lPart, lits, i, abstract_levels) ==
  IF i > Len(lits) THEN [a |-> A, stack |-> stack, lPart |-> lPart, fail |-> FALSE]
  ELSE LET q == lits[i]
           x == var(q)
       IN  IF A.seen[x] = 0
           THEN IF level(S, x) > 0
                THEN IF reason(S, x) # CRef_Undef /\ abstractLevel(S, x) \in abstract_levels
                     THEN LRLits(S, [A EXCEPT !.seen[x] = 1, !.toclear = Append(@, q)],
                                 Append(stack, q), lPart, lits, i + 1, abstract_levels)
                     ELSE [a |-> A, stack |-> stack, lPart |-> lPart, fail |-> TRUE]
                ELSE IF S.log_proof
                     THEN LRLits(S,
                            IF undef(S.trail_part[x])
                            THEN AFail(A, "litRedundant: !trail_part[var (p)].undef ()")
                            ELSE A,
                            stack, join(lPart, S.trail_part[x]), lits, i + 1,
                            abstract_levels)
                     ELSE LRLits(S, A, stack, lPart, lits, i + 1, abstract_levels)
           ELSE LRLits(S, A, stack, lPart, lits, i + 1, abstract_levels)

\* Variant of LRLoop whose 'return false' branch leaves seen and
\* analyze_toclear as the call changed them
RECURSIVE LRLoop_noRollback(_, _, _, _, _, _)
LRLoop_noRollback(S, A, stack, lPart, top, abstract_levels) ==
  IF stack = << >>
  THEN [a |-> IF S.log_proof THEN [A EXCEPT !.part = join(@, lPart)] ELSE A,
        ret |-> TRUE]
  ELSE LET q == stack[Len(stack)]
           r == reason(S, var(q))
       IN  IF r = CRef_Undef
           THEN [a |-> AFail(A, "litRedundant: reason != CRef_Undef"), ret |-> FALSE]
           ELSE LET c  == S.ca[r]
                    lp == IF S.log_proof THEN join(lPart, c.part) ELSE lPart
                    t  == LRLits(S, A, SubSeq(stack, 1, Len(stack) - 1), lp,
                                 c.lits, 2, abstract_levels)
                IN  IF t.fail
                    THEN [a |-> t.a, ret |-> FALSE]
                    ELSE LRLoop_noRollback(S, t.a, t.stack, t.lPart, top, abstract_levels)

RECURSIVE LRLoop(_, _, _, _, _, _)
LRLoop(S, A, stack, lPart, top, abstract_levels) ==
  IF stack = << >>
  THEN [a |-> IF S.log_proof THEN [A EXCEPT !.part = join(@, lPart)] ELSE A,
        ret |-> TRUE]
  ELSE LET q == stack[Len(stack)]
           r == reason(S, var(q))
       IN  IF r = CRef_Undef
           THEN [a |-> AFail(A, "litRedundant: reason != CRef_Undef"), ret |-> FALSE]
           ELSE LET c  == S.ca[r]
                    lp == IF S.log_proof THEN join(lPart, c.part) ELSE lPart
                    t  == LRLits(S, A, SubSeq(stack, 1, Len(stack) - 1), lp,
                                 c.lits, 2, abstract_levels)
                IN  IF t.fail
                    THEN LET und == {var(t.a.toclear[j]) : j \in (top + 1)..Len(t.a.toclear)}
                         IN  [a |-> [t.a EXCEPT
                                       !.seen = [x \in 1..nVars(S) |-> IF x \in und THEN 0 ELSE @[x]],
                                       !.toclear = SubSeq(@, 1, top)],
                              ret |-> FALSE]
                    ELSE LRLoop(S, t.a, t.stack, t.lPart, top, abstract_levels)

litRedundant(S, A, p, abstract_levels) ==
  LRLoop(S, A, << p >>, RangeUndef, Len(A.toclear), abstract_levels)

\* ccmin_mode == 2: the filter loop over out_learnt[1..]
RECURSIVE MinimizeDeep(_, _, _, _, _)
MinimizeDeep(S, A, lits, i, abstract_levels) ==
  IF i > Len(lits) THEN [A EXCEPT !.out = << >>]
  ELSE IF reason(S, var(lits[i])) = CRef_Undef
       THEN LET R == MinimizeDeep(S, A, lits, i + 1, abstract_levels)
            IN  [R EXCEPT !.out = << lits[i] >> \o @]
       ELSE LET r == litRedundant(S, A, lits[i], abstract_levels)
                R == MinimizeDeep(S, r.a, lits, i + 1, abstract_levels)
            IN  IF r.ret THEN R ELSE [R EXCEPT !.out = << lits[i] >> \o @]

\* ccmin_mode == 1: keep out_learnt[i] unless its reason's tail is seen or level 0
MinimizeBasic(S, A, lits) ==
  LET keep(q) ==
        \/ reason(S, var(q)) = CRef_Undef
        \/ LET c == S.ca[reason(S, var(q))]
           IN  \E k \in 2..Len(c.lits) :
                 A.seen[var(c.lits[k])] = 0 /\ level(S, var(c.lits[k])) > 0
  IN  [A EXCEPT !.out = SelectSeq(lits, keep)]

\* analyze(confl, out_learnt, out_btlevel, part).  The result holds the
\* solver (seen), out_learnt, out_btlevel and part.
analyze(S, confl) ==
  LET A0 == [seen |-> S.seen, pathC |-> 0, out |-> << >>,
             part |-> IF S.log_proof THEN S.ca[confl].part ELSE RangeUndef,
             toclear |-> << >>, err |-> S.err]
      \* out_learnt[0] = ~p; analyze_toclear = out_learnt
      Uip(L) == [a |-> [L.a EXCEPT !.toclear = << 0 - L.p >> \o L.a.out],
                 first |-> 0 - L.p]
      \* simplify conflict clause
      Checked(A) == IF S.ccmin_mode = 1 /\ S.log_proof
                    THEN AFail(A, "analyze: !log_proof") ELSE A
      Minimize(A) ==
        IF S.ccmin_mode = 2
        THEN MinimizeDeep(S, A, A.out, 1,
                          {abstractLevel(S, var(A.out[i])) : i \in 1..Len(A.out)})
        ELSE IF S.ccmin_mode = 1 THEN MinimizeBasic(S, A, A.out)
        ELSE A
      \* find correct backtrack level: the first literal of the highest
      \* level among out_learnt[1..] is swapped to index 1
      MaxI(ol) == CHOOSE i \in 2..Len(ol) :
                    /\ \A k \in 2..Len(ol) : level(S, var(ol[k])) <= level(S, var(ol[i]))
                    /\ \A k \in 2..(i - 1) : level(S, var(ol[k])) < level(S, var(ol[i]))
      Swapped(ol, max_i) == [ol EXCEPT ![max_i] = ol[2], ![2] = ol[max_i]]
      Cleared(A) == {var(A.toclear[j]) : j \in 1..Len(A.toclear)}
      Result(A, ol) ==
        [st |-> [S EXCEPT !.seen = [x \in 1..nVars(S) |-> IF x \in Cleared(A) THEN 0
                                                   ELSE A.seen[x]],
                          !.err = A.err],
         out_learnt |-> IF Len(ol) < 2 THEN ol ELSE Swapped(ol, MaxI(ol)),
         out_btlevel |-> IF Len(ol) < 2 THEN 0 ELSE level(S, var(ol[MaxI(ol)])),
         part |-> A.part]
      Finish(A, first) == Result(A, << first >> \o A.out)
      Rest(U) == Finish(Minimize(Checked(U.a)), U.first)
  IN  Rest(Uip(AnalyzeLoop(S, A0, confl, lit_Undef, Len(S.trail))))

\* analyzeFinal(p, out_conflict): the walk down the trail from its top to
\* trail_lim[0]
RECURSIVE AnalyzeFinalLoop(_, _, _, _)
AnalyzeFinalLoop(S, seen_, out, i) ==
  IF i <= S.trail_lim[1] THEN [seen |-> seen_, out |-> out]
  ELSE LET x == var(S.trail[i]) IN
       IF seen_[x] = 1
       THEN IF reason(S, x) = CRef_Undef
            THEN AnalyzeFinalLoop(S, [seen_ EXCEPT ![x] = 0],
                                  Append(out, 0 - S.trail[i]), i - 1)
            ELSE LET c == S.ca[reason(S, x)]
                     mk == {var(c.lits[j]) : j \in {k \in 2..Len(c.lits) :
                                                     level(S, var(c.lits[k])) > 0}}
                 IN  AnalyzeFinalLoop(S,
                        [y \in 1..nVars(S) |-> IF y = x THEN 0
                                        ELSE IF y \in mk THEN 1 ELSE seen_[y]],
                        out, i - 1)
       ELSE AnalyzeFinalLoop(S, seen_, out, i - 1)

\* Variant of analyzeFinal without the closing seen[var(p)] = 0
analyzeFinal_noClear(S, p) ==
  IF decisionLevel(S) = 0 THEN [S EXCEPT !.conflict = << p >>]
  ELSE LET r == AnalyzeFinalLoop(S, [S.seen EXCEPT ![var(p)] = 1], << p >>, Len(S.trail))
       IN  [S EXCEPT !.conflict = r.out, !.seen = r.seen]

analyzeFinal(S, p) ==
  IF decisionLevel(S) = 0 THEN [S EXCEPT !.conflict = << p >>]
  ELSE LET r == AnalyzeFinalLoop(S, [S.seen EXCEPT ![var(p)] = 1], << p >>, Len(S.trail))
       IN  [S EXCEPT !.conflict = r.out,
                     !.seen = [r.seen EXCEPT ![var(p)] = 0]]

\* ------------------------------------------------------------------------
\* removeClause, removeSatisfied, reduceDB, simplify
\* ------------------------------------------------------------------------
satisfied(S, c) == \E i \in 1..Len(c.lits) : value(S, c.lits[i]) = l_True

\* Variant of removeClause that logs cr at the front of the proof
removeClause_logFirst(S, cr) ==
  LET c  == S.ca[cr]
      S1 == IF S.log_proof THEN [S EXCEPT !.proof = << cr >> \o @] ELSE S
      S2 == IF Len(c.lits) > 1 THEN detachClause(S1, cr) ELSE S1
      S3 == IF locked(S2, cr) /\ ~S.log_proof
            THEN [S2 EXCEPT !.vardata[var(c.lits[1])].reason = CRef_Undef]
            ELSE S2
      S4 == [S3 EXCEPT !.ca[cr].mark = 1]
  IN  IF ~S.log_proof THEN [S4 EXCEPT !.ca[cr].freed = TRUE] ELSE S4

\* Variant of removeClause that frees the clause but leaves the reason of a
\* locked clause's variable pointing at it
removeClause_keepReason(S, cr) ==
  LET c  == S.ca[cr]
      S1 == IF S.log_proof THEN [S EXCEPT !.proof = Append(@, cr)] ELSE S
      S2 == IF Len(c.lits) > 1 THEN detachClause(S1, cr) ELSE S1
      S4 == [S2 EXCEPT !.ca[cr].mark = 1]
  IN  IF ~S.log_proof THEN [S4 EXCEPT !.ca[cr].freed = TRUE] ELSE S4

\* Variant of removeClause that clears the reason of a locked clause's
\* variable with proof logging on as well
removeClause_clearReason(S, cr) ==
  LET c  == S.ca[cr]
      S1 == IF S.log_proof THEN [S EXCEPT !.proof = Append(@, cr)] ELSE S
      S2 == IF Len(c.lits) > 1 THEN detachClause(S1, cr) ELSE S1
      S3 == IF locked(S2, cr)
            THEN [S2 EXCEPT !.vardata[var(c.lits[1])].reason = CRef_Undef]
            ELSE S2
      S4 == [S3 EXCEPT !.ca[cr].mark = 1]
  IN  IF ~S.log_proof THEN [S4 EXCEPT !.ca[cr].freed = TRUE] ELSE S4

removeClause(S, cr) ==
  LET c  == S.ca[cr]
      S1 == IF S.log_proof THEN [S EXCEPT !.proof = Append(@, cr)] ELSE S
      S2 == IF Len(c.lits) > 1 THEN detachClause(S1, cr) ELSE S1
      S3 == IF locked(S2, cr) /\ ~S.log_proof
            THEN [S2 EXCEPT !.vardata[var(c.lits[1])].reason = CRef_Undef]
            ELSE S2
      S4 == [S3 EXCEPT !.ca[cr].mark = 1]
  IN  IF ~S.log_proof THEN [S4 EXCEPT !.ca[cr].freed = TRUE] ELSE S4

\* removeSatisfied(cs) on the list 'which' ("learnts" or "clauses")
RECURSIVE RemoveSatisfiedLoop(_, _, _, _)
RemoveSatisfiedLoop(S, cs, i, kept) ==
  IF i > Len(cs) THEN [st |-> S, cs |-> kept]
  ELSE IF satisfied(S, S.ca[cs[i]])
       THEN RemoveSatisfiedLoop(removeClause(S, cs[i]), cs, i + 1, kept)
       ELSE RemoveSatisfiedLoop(S, cs, i + 1, Append(kept, cs[i]))

removeSatisfied(S, which) ==
  LET r == RemoveSatisfiedLoop(S, S[which], 1, << >>)
  IN  [r.st EXCEPT ![which] = r.cs]

\* checkGarbage(): garbageCollect() when ca.wasted() > ca.size() * garbage_frac.
\* garbage_frac is HUGE_VAL (opt_garbage_frac), so the test is never true.
checkGarbage(S) == S

\* Variant of rebuildOrderHeap that builds an empty heap
rebuildOrderHeap_empty(S) == [S EXCEPT !.order_heap = {}]

rebuildOrderHeap(S) ==
  [S EXCEPT !.order_heap = {v \in 1..nVars(S) : decision(v) /\ S.assigns[v] = l_Undef}]

\* The orders sort(learnts, reduceDB_lt) can produce: clause activities are
\* not modelled, so every order with the clauses of size > 2 before the
\* binary ones is possible.
Perms(s) ==
  {q \in [1..Len(s) -> {s[i] : i \in 1..Len(s)}] :
     \A i, j \in 1..Len(s) : i # j => q[i] # q[j]}

ReduceOrders(S) ==
  {q \in Perms(S.learnts) :
     \A i, j \in 1..Len(q) :
        (Len(S.ca[q[i]].lits) = 2 /\ Len(S.ca[q[j]].lits) > 2) => j < i}

\* Variant of reduceDB's loop that does not test locked(c)
RECURSIVE ReduceLoop_unlocked(_, _, _, _, _)
ReduceLoop_unlocked(S, ls, i, kept, lim) ==
  IF i >= Len(ls) THEN [S EXCEPT !.learnts = kept]
  ELSE LET cr == ls[i + 1]
           c  == S.ca[cr]
       IN  IF Len(c.lits) > 2 /\ (i < Len(ls) \div 2 \/ i < lim)
           THEN ReduceLoop_unlocked(removeClause(S, cr), ls, i + 1, kept, lim)
           ELSE ReduceLoop_unlocked(S, ls, i + 1, Append(kept, cr), lim)

\* reduceDB with the sorted order and the number lim of leading clauses whose
\* activity is below extra_lim
RECURSIVE ReduceLoop(_, _, _, _, _)
ReduceLoop(S, ls, i, kept, lim) ==
  IF i >= Len(ls) THEN [S EXCEPT !.learnts = kept]
  ELSE LET cr == ls[i + 1]
           c  == S.ca[cr]
       IN  IF Len(c.lits) > 2 /\ ~locked(S, cr) /\ (i < Len(ls) \div 2 \/ i < lim)
           THEN ReduceLoop(removeClause(S, cr), ls, i + 1, kept, lim)
           ELSE ReduceLoop(S, ls, i + 1, Append(kept, cr), lim)

reduceDB(S, order, lim) == checkGarbage(ReduceLoop(S, order, 0, << >>, lim))

simplify(S) ==
  LET Stamp(S3) == [S3 EXCEPT !.simpDB_assigns = nAssigns(S3),
                              !.simpDB_props = S3.clauses_literals + S3.learnts_literals]
      \* remove satisfied clauses
      Sweep(T) ==
        Stamp(rebuildOrderHeap(checkGarbage(
          removeSatisfied(removeSatisfied(T, "learnts"), "clauses"))))
      Propagated(r) ==
        IF ~S.ok THEN [st |-> r.st0, ret |-> FALSE]
        ELSE IF r.confl # CRef_Undef
        THEN [st |-> [r.st EXCEPT !.ok = FALSE], ret |-> FALSE]
        ELSE IF nAssigns(r.st) = r.st.simpDB_assigns \/ r.st.simpDB_props > 0
        THEN [st |-> r.st, ret |-> TRUE]
        ELSE [st |-> Sweep(r.st), ret |-> TRUE]
      Run(S0) == Propagated([st0 |-> S0] @@ (IF S.ok THEN propagate(S0, FALSE)
                                             ELSE [st |-> S0, confl |-> CRef_Undef]))
  IN  Run(IF decisionLevel(S) = 0 THEN S
          ELSE Fail(S, "simplify: decisionLevel() == 0"))

\* ------------------------------------------------------------------------
\* pickBranchLit
\* ------------------------------------------------------------------------
\* rnd_pol is false.  Variable activities are not modelled: removeMin() may
\* return the heap's entries in any order.  popped: the assigned entries
\* removed before next; next = 0 (var_Undef): the heap ran empty.  random:
\* with random_var_freq > 0 the random decision may pick an entry that is
\* unassigned, which stays in the heap; a random pick of an assigned entry
\* is followed by the activity-based loop.
PickChoices(S) ==
  LET free  == {v \in S.order_heap : S.assigns[v] = l_Undef /\ decision(v)}
      stale == S.order_heap \ free
      byActivity == {[next |-> v, popped |-> P, random |-> FALSE] :
                       v \in free, P \in SUBSET stale}
      byRandom == IF S.random_var_freq.num > 0
                  THEN {[next |-> v, popped |-> {}, random |-> TRUE] : v \in free}
                  ELSE {}
  IN  IF free = {} THEN {[next |-> 0, popped |-> stale, random |-> FALSE]}
      ELSE byActivity \cup byRandom

\* every unassigned decision variable is in the order heap
heapHolds(S) ==
  \A x \in 1..nVars(S) : (decision(x) /\ S.assigns[x] = l_Undef) => x \in S.order_heap

pickBranchLit(S, ch) ==
  [st  |-> [S EXCEPT !.order_heap =
                       @ \ (ch.popped \cup (IF ch.random THEN {} ELSE {ch.next}))],
   lit |-> IF ch.next = 0 THEN lit_Undef ELSE mkLit(ch.next, S.polarity[ch.next])]

\* ------------------------------------------------------------------------
\* search, solve_
\* ------------------------------------------------------------------------
\* Options (Solver.cc, the option table): the restart schedule
restart_first == 1
restart_inc == 2
learntsize_adjust_start_confl == 100

RECURSIVE Pow(_, _)
Pow(y, n) == IF n <= 0 THEN 1 ELSE y * Pow(y, n - 1)

\* luby(y, x)
RECURSIVE LubyUp(_, _, _)
LubyUp(x, size, seq) ==
  IF size < x + 1 THEN LubyUp(x, 2 * size + 1, seq + 1) ELSE [size |-> size, seq |-> seq]

RECURSIVE LubyDown(_, _, _)
LubyDown(x, size, seq) ==
  IF size - 1 # x
  THEN LET sz == (size - 1) \div 2 IN LubyDown(x % sz, sz, seq - 1)
  ELSE seq

luby(y, x) == LET u == LubyUp(x, 1, 0) IN Pow(y, LubyDown(x, u.size, u.seq))

\* luby_restart is true (opt_luby_restart)
nof_conflicts(restarts) == luby(restart_inc, restarts) * restart_first

\* Variant of withinBudget that does not read asynch_interrupt
withinBudget_noInterrupt(S) == TRUE

\* conflict_budget and propagation_budget are -1: only the interrupt counts
withinBudget(S) == ~S.asynch_interrupt

\* learnts.size() - nAssigns() >= max_learnts, max_learnts a ratio num/den
reduceDue(S) ==
  (Len(S.learnts) - nAssigns(S)) * S.max_learnts.den >= S.max_learnts.num

\* Variant of searchLearn that allocates a learnt unit clause and enqueues
\* it without logging it in proof
searchLearn_unitUnlogged(S2, a) ==
  LET Logged(T, cr, part) ==
        IF T.log_proof
        THEN [T EXCEPT !.proof = Append(@, cr), !.ca[cr].part = part]
        ELSE T
      Learn(ol, part, cr) ==
        IF Len(ol) = 1
        THEN IF S2.log_proof
             THEN uncheckedEnqueue([alloc(S2, ol, TRUE) EXCEPT !.ca[cr].part = part],
                                   ol[1], cr)
             ELSE uncheckedEnqueue(S2, ol[1], CRef_Undef)
        ELSE uncheckedEnqueue(
               attachClause([Logged(alloc(S2, ol, TRUE), cr, part)
                               EXCEPT !.learnts = Append(@, cr)], cr),
               ol[1], cr)
      Grown(c) == [num |-> c.num * 3, den |-> c.den * 2]
      Adjust(S3) ==
        IF S3.learntsize_adjust_cnt - 1 = 0
        THEN [S3 EXCEPT !.learntsize_adjust_confl = Grown(@),
                        !.learntsize_adjust_cnt =
                            Grown(S3.learntsize_adjust_confl).num
                              \div Grown(S3.learntsize_adjust_confl).den,
                        !.max_learnts = [num |-> @.num * 11, den |-> @.den * 10]]
        ELSE [S3 EXCEPT !.learntsize_adjust_cnt = @ - 1]
  IN  Adjust(Learn(a.out_learnt, a.part, Len(S2.ca) + 1))

\* the CONFLICT branch of search at decisionLevel() > 0, after analyze and
\* cancelUntil: the learnt clause a.out_learnt is stored, with log_proof
\* logged, its first literal enqueued, and the learnt-size schedule advanced
searchLearn(S2, a) ==
  LET \* the learnt clause is allocated and, with log_proof, logged
      Logged(T, cr, part) ==
        IF T.log_proof
        THEN [T EXCEPT !.proof = Append(@, cr), !.ca[cr].part = part]
        ELSE T
      Learn(ol, part, cr) ==
        IF Len(ol) = 1
        THEN IF S2.log_proof
             THEN uncheckedEnqueue(Logged(alloc(S2, ol, TRUE), cr, part), ol[1], cr)
             ELSE uncheckedEnqueue(S2, ol[1], CRef_Undef)
        ELSE uncheckedEnqueue(
               attachClause([Logged(alloc(S2, ol, TRUE), cr, part)
                               EXCEPT !.learnts = Append(@, cr)], cr),
               ol[1], cr)
      Grown(c) == [num |-> c.num * 3, den |-> c.den * 2]
      Adjust(S3) ==
        IF S3.learntsize_adjust_cnt - 1 = 0
        THEN [S3 EXCEPT !.learntsize_adjust_confl = Grown(@),
                        !.learntsize_adjust_cnt =
                            Grown(S3.learntsize_adjust_confl).num
                              \div Grown(S3.learntsize_adjust_confl).den,
                        !.max_learnts = [num |-> @.num * 11, den |-> @.den * 10]]
        ELSE [S3 EXCEPT !.learntsize_adjust_cnt = @ - 1]
  IN  Adjust(Learn(a.out_learnt, a.part, Len(S2.ca) + 1))

\* Variant of searchConflict that returns l_False on a conflict at any
\* decision level (no analysis, no learnt clause)
searchConflict_anyLevel(S0, confl) ==
  [st  |-> IF S0.log_proof
           THEN [S0 EXCEPT !.conflicts = @ + 1, !.proof = Append(@, confl)]
           ELSE [S0 EXCEPT !.conflicts = @ + 1],
   ret |-> l_False]

\* Variant of searchConflict that does not log the conflict clause of a
\* conflict at decision level 0
searchConflict_unlogged(S0, confl) ==
  LET Learnt(a) == searchLearn(cancelUntil(a.st, a.out_btlevel), a)
      Conflict(S) ==
        IF decisionLevel(S) = 0
        THEN [st |-> S, ret |-> l_False]
        ELSE [st |-> Learnt(analyze(S, confl)), ret |-> l_Undef]
  IN  Conflict([S0 EXCEPT !.conflicts = @ + 1])

\* the CONFLICT branch of search after conflictC++:
\* ret is l_False (return) or l_Undef (go round the loop again)
searchConflict(S0, confl) ==
  LET Learnt(a) == searchLearn(cancelUntil(a.st, a.out_btlevel), a)
      Conflict(S) ==
        IF decisionLevel(S) = 0
        THEN [st |-> IF S.log_proof THEN [S EXCEPT !.proof = Append(@, confl)] ELSE S,
              ret |-> l_False]
        ELSE [st |-> Learnt(analyze(S, confl)), ret |-> l_Undef]
  IN  Conflict([S0 EXCEPT !.conflicts = @ + 1])

\* Variant of assumeLoop that hands the falsified assumption itself, not its
\* negation, to analyzeFinal
RECURSIVE assumeLoop_unnegated(_)
assumeLoop_unnegated(S) ==
  IF decisionLevel(S) < Len(S.assumptions)
  THEN LET p == S.assumptions[decisionLevel(S) + 1] IN
       IF value(S, p) = l_True THEN assumeLoop_unnegated(newDecisionLevel(S))
       ELSE IF value(S, p) = l_False
            THEN [st |-> analyzeFinal(S, p), next |-> lit_Undef, ret |-> l_False]
            ELSE [st |-> S, next |-> p, ret |-> l_Undef]
  ELSE [st |-> S, next |-> lit_Undef, ret |-> l_Undef]

\* Variant of assumeLoop that gives a dummy decision level to every assigned
\* assumption, True or False
RECURSIVE assumeLoop_anyValue(_)
assumeLoop_anyValue(S) ==
  IF decisionLevel(S) < Len(S.assumptions)
  THEN LET p == S.assumptions[decisionLevel(S) + 1] IN
       IF value(S, p) # l_Undef THEN assumeLoop_anyValue(newDecisionLevel(S))
       ELSE [st |-> S, next |-> p, ret |-> l_Undef]
  ELSE [st |-> S, next |-> lit_Undef, ret |-> l_Undef]

\* the loop over the assumptions: ret is l_False (analyzeFinal was called),
\* else next is the assumption to decide or lit_Undef
RECURSIVE assumeLoop(_)
assumeLoop(S) ==
  IF decisionLevel(S) < Len(S.assumptions)
  THEN LET p == S.assumptions[decisionLevel(S) + 1] IN
       IF value(S, p) = l_True THEN assumeLoop(newDecisionLevel(S))
       ELSE IF value(S, p) = l_False
            THEN [st |-> analyzeFinal(S, 0 - p), next |-> lit_Undef, ret |-> l_False]
            ELSE [st |-> S, next |-> p, ret |-> l_Undef]
  ELSE [st |-> S, next |-> lit_Undef, ret |-> l_Undef]

\* Variant of solveBegin that goes on to search when ok is false
solveBegin_ignoreOk(S0, assumps) ==
  LET S == [S0 EXCEPT !.assumptions = assumps, !.model = << >>, !.conflict = << >>]
  IN  [st |-> [S EXCEPT !.max_learnts = [num |-> nClauses(S) * S.learntsize_factor.num,
                                            den |-> S.learntsize_factor.den],
                        !.learntsize_adjust_confl =
                           [num |-> learntsize_adjust_start_confl, den |-> 1],
                        !.learntsize_adjust_cnt = learntsize_adjust_start_confl],
       ret |-> l_Undef]

\* solve_ before its search loop
solveBegin(S0, assumps) ==
  LET S == [S0 EXCEPT !.assumptions = assumps, !.model = << >>, !.conflict = << >>]
  IN  IF ~S.ok THEN [st |-> S, ret |-> l_False]
      ELSE [st |-> [S EXCEPT !.max_learnts = [num |-> nClauses(S) * S.learntsize_factor.num,
                                            den |-> S.learntsize_factor.den],
                             !.learntsize_adjust_confl =
                                [num |-> learntsize_adjust_start_confl, den |-> 1],
                             !.learntsize_adjust_cnt = learntsize_adjust_start_confl],
            ret |-> l_Undef]

\* Variant of solveEnd that copies the model after cancelUntil(0)
solveEnd_lateModel(S, st) ==
  LET Stored(T) ==
        IF st = l_True
        THEN [T EXCEPT !.model = [i \in 1..nVars(T) |-> T.assigns[i]]]
        ELSE IF st = l_False /\ Len(T.conflict) = 0
             THEN [T EXCEPT !.ok = FALSE]
             ELSE T
  IN  Stored(cancelUntil(S, 0))

\* Variant of solveEnd without the final cancelUntil(0)
solveEnd_noCancel(S, st) ==
  IF st = l_True
  THEN [S EXCEPT !.model = [i \in 1..nVars(S) |-> S.assigns[i]]]
  ELSE IF st = l_False /\ Len(S.conflict) = 0
       THEN [S EXCEPT !.ok = FALSE]
       ELSE S

\* solve_ after its search loop
solveEnd(S, st) ==
  LET S1 == IF st = l_True
            THEN [S EXCEPT !.model = [i \in 1..nVars(S) |-> S.assigns[i]]]
            ELSE IF st = l_False /\ Len(S.conflict) = 0
                 THEN [S EXCEPT !.ok = FALSE]
                 ELSE S
  IN  cancelUntil(S1, 0)

\* ------------------------------------------------------------------------
\* validate, validateLemma
\* ------------------------------------------------------------------------
\* ca[reason(x)].core(1); reading ca[CRef_Undef] is recorded in err
markReasonCore(S, x, site) ==
  IF reason(S, x) = CRef_Undef THEN Fail(S, site)
  ELSE [S EXCEPT !.ca[reason(S, x)].core = TRUE]

\* for (j = 1; j < c.size(); ++j) ca[reason(var(c[j]))].core(1)
RECURSIVE markTailCore(_, _, _, _)
markTailCore(S, lits, j, site) ==
  IF j > Len(lits) THEN S
  ELSE markTailCore(markReasonCore(S, var(lits[j]), site), lits, j + 1, site)

RECURSIVE enqueueNegated(_, _, _)
enqueueNegated(S, lits, i) ==
  IF i > Len(lits) THEN S
  ELSE enqueueNegated(enqueue(S, 0 - lits[i], CRef_Undef).st, lits, i + 1)

\* the literals of a clause in validateLemma: level > 1 is marked seen,
\* level <= 0 has its reason marked core
RECURSIVE lemmaMark(_, _, _)
lemmaMark(S, lits, j) ==
  IF j > Len(lits) THEN S
  ELSE LET y == var(lits[j]) IN
       IF level(S, y) > 1 THEN lemmaMark([S EXCEPT !.seen[y] = 1], lits, j + 1)
       ELSE IF level(S, y) <= 0
            THEN lemmaMark(markReasonCore(S, y, "validateLemma: ca[CRef_Undef] read"),
                           lits, j + 1)
            ELSE lemmaMark(S, lits, j + 1)

\* Variant of lemmaWalk that marks no reason as core
lemmaWalk_none(S, i) == S

\* the walk down the trail from its top to trail_lim[1]
RECURSIVE lemmaWalk(_, _)
lemmaWalk(S, i) ==
  IF i <= S.trail_lim[2] THEN S
  ELSE LET x == var(S.trail[i]) IN
       IF S.seen[x] = 0 THEN lemmaWalk(S, i - 1)
       ELSE LET S1 == [S EXCEPT !.seen[x] = 0] IN
            IF reason(S1, x) = CRef_Undef
            THEN lemmaWalk(Fail(S1, "validateLemma: reason (x) != CRef_Undef"), i - 1)
            ELSE LET r  == reason(S1, x)
                     S2 == [S1 EXCEPT !.ca[r].core = TRUE]
                     c  == S2.ca[r]
                     S3 == IF value(S2, c.lits[1]) = l_True
                              /\ \A j \in 2..Len(c.lits) : value(S2, c.lits[j]) = l_False
                           THEN S2
                           ELSE Fail(S2, "validateLemma: reason is not unit under the trail")
                 IN  lemmaWalk(lemmaMark(S3, c.lits, 2), i - 1)

validateLemma(S, cr) ==
  LET Check(T, holds, msg) == IF holds THEN T ELSE Fail(T, msg)
      Cleared(T) == Observe(T, seenClear(S) => seenClear(T), "validateLemma: seen")
      Entry(T) ==
        Check(Check(Check(Check(T, decisionLevel(S) = 0,
                                "validateLemma: decisionLevel () == 0"),
                          S.ok, "validateLemma: ok"),
                    S.ca[cr].core, "validateLemma: lemma.core ()"),
              ~locked(S, cr), "validateLemma: !locked (lemma)")
      Walk(T) == lemmaWalk(T, Len(T.trail))
      Mark(T, confl) == lemmaMark([T EXCEPT !.ca[confl].core = TRUE], T.ca[confl].lits, 1)
      Propagated(r) ==
        IF r.confl = CRef_Undef THEN [st |-> Cleared(r.st), ret |-> FALSE]
        ELSE [st |-> Cleared([cancelUntil(Walk(Mark(r.st, r.confl)), 0)
                                EXCEPT !.ok = TRUE]),
              ret |-> TRUE]
  IN  Propagated(propagate(
        newDecisionLevel(enqueueNegated(newDecisionLevel(Entry(S)), S.ca[cr].lits, 1)),
        FALSE))

\* the first loop of validate, over the literals of the last proof clause
RECURSIVE validateLast(_, _, _)
validateLast(S, lits, i) ==
  IF i > Len(lits) THEN [st |-> S, ret |-> TRUE]
  ELSE IF value(S, lits[i]) # l_False THEN [st |-> S, ret |-> FALSE]
       ELSE validateLast(markReasonCore(S, var(lits[i]), "validate: ca[CRef_Undef] read"),
                         lits, i + 1)

\* 'undo the bcp': pops trail entries above c[0]; trail_sz is the local count
RECURSIVE undoBcp(_, _, _)
undoBcp(S, trail_sz, c0) ==
  IF trail_sz < 1 \/ trail_sz > Len(S.trail)
  THEN [st |-> Fail(S, "validate: trail index out of range"), trail_sz |-> trail_sz]
  ELSE IF S.trail[trail_sz] = c0 THEN [st |-> S, trail_sz |-> trail_sz]
  ELSE LET x  == var(S.trail[trail_sz])
           S1 == insertVarOrder([S EXCEPT !.assigns[x] = l_Undef], x)
           r  == reason(S1, x)
       IN  IF r = CRef_Undef
           THEN undoBcp(Fail(S1, "validate: r != CRef_Undef"), trail_sz - 1, c0)
           ELSE IF S1.ca[r].core
                THEN undoBcp(markTailCore(S1, S1.ca[r].lits, 2,
                                          "validate: ca[CRef_Undef] read"),
                             trail_sz - 1, c0)
                ELSE undoBcp(S1, trail_sz - 1, c0)

\* Variant of shrinkTrail that sets qhead and leaves the trail as it is
shrinkTrail_qheadOnly(S, trail_sz) ==
  [S EXCEPT !.qhead = IF trail_sz < 0 THEN 0 ELSE Min(trail_sz, Len(S.trail))]

shrinkTrail(S, trail_sz) ==
  LET n  == IF trail_sz < 0 THEN 0 ELSE Min(trail_sz, Len(S.trail))
      S0 == IF trail_sz < 0 \/ trail_sz > Len(S.trail)
            THEN Fail(S, "validate: trail.shrink out of range") ELSE S
      S1 == [S0 EXCEPT !.trail = SubSeq(@, 1, n), !.qhead = n]
  IN  IF Len(S1.trail_lim) > 0 THEN [S1 EXCEPT !.trail_lim[1] = n] ELSE S1

\* Variant of validateLoop that passes over an entry whose clause has mark 1
\* without resurrecting the clause
RECURSIVE validateLoop_noResurrect(_, _, _)
validateLoop_noResurrect(S, i, trail_sz) ==
  LET cr == S.proof[i]
      c0 == S.ca[S.proof[i]].lits[1]
      size == Len(S.ca[S.proof[i]].lits)
      \* undo the bcp, then unassign the variable of c[0]
      Unassign(b) ==
        [st |-> insertVarOrder([b.st EXCEPT !.assigns[var(c0)] = l_Undef], var(c0)),
         trail_sz |-> b.trail_sz - 1]
      Unlock(T) ==
        IF locked(T, cr) THEN Unassign(undoBcp(T, trail_sz, c0))
        ELSE [st |-> T, trail_sz |-> trail_sz]
      \* detach the clause and mark it deleted
      Delete(T) ==
        [(IF size > 1 THEN detachClause(T, cr) ELSE T) EXCEPT !.ca[cr].mark = 1]
      Ready(T, sz) ==
        shrinkTrail(IF value(T, c0) = l_Undef THEN T
                    ELSE Fail(T, "validate: value (c[0]) == l_Undef"),
                    sz)
      Validated(v, sz) ==
        IF ~v.ret THEN [st |-> v.st, trail_sz |-> sz, ret |-> FALSE]
        ELSE validateLoop_noResurrect(v.st, i - 1, sz)
      Deleted(T, sz) ==
        IF T.ca[cr].core THEN Validated(validateLemma(Ready(T, sz), cr), sz)
        ELSE validateLoop_noResurrect(T, i - 1, sz)
      Unlocked(u) == Deleted(Delete(u.st), u.trail_sz)
  IN  IF i < 1 THEN [st |-> S, trail_sz |-> trail_sz, ret |-> TRUE]
      ELSE IF S.ca[cr].mark = 1
      THEN validateLoop_noResurrect(S, i - 1, trail_sz)
      ELSE Unlocked(Unlock(S))

\* the backward loop over proof[i], i the position in proof
RECURSIVE validateLoop(_, _, _)
validateLoop(S, i, trail_sz) ==
  LET cr == S.proof[i]
      c0 == S.ca[S.proof[i]].lits[1]
      size == Len(S.ca[S.proof[i]].lits)
      \* resurrect deleted clauses
      Enqueued(e) == IF e.ret THEN e.st ELSE Fail(e.st, "validate: res")
      Resurrect(T) ==
        IF size > 1 THEN attachClause(T, cr) ELSE Enqueued(enqueue(T, c0, cr))
      \* undo the bcp, then unassign the variable of c[0]
      Unassign(b) ==
        [st |-> insertVarOrder([b.st EXCEPT !.assigns[var(c0)] = l_Undef], var(c0)),
         trail_sz |-> b.trail_sz - 1]
      Unlock(T) ==
        IF locked(T, cr) THEN Unassign(undoBcp(T, trail_sz, c0))
        ELSE [st |-> T, trail_sz |-> trail_sz]
      \* detach the clause and mark it deleted
      Delete(T) ==
        [(IF size > 1 THEN detachClause(T, cr) ELSE T) EXCEPT !.ca[cr].mark = 1]
      Ready(T, sz) ==
        shrinkTrail(IF value(T, c0) = l_Undef THEN T
                    ELSE Fail(T, "validate: value (c[0]) == l_Undef"),
                    sz)
      Validated(v, sz) ==
        IF ~v.ret THEN [st |-> v.st, trail_sz |-> sz, ret |-> FALSE]
        ELSE validateLoop(v.st, i - 1, sz)
      Deleted(T, sz) ==
        IF T.ca[cr].core THEN Validated(validateLemma(Ready(T, sz), cr), sz)
        ELSE validateLoop(T, i - 1, sz)
      Unlocked(u) == Deleted(Delete(u.st), u.trail_sz)
  IN  IF i < 1 THEN [st |-> S, trail_sz |-> trail_sz, ret |-> TRUE]
      ELSE IF S.ca[cr].mark = 1
      THEN validateLoop(Resurrect([S EXCEPT !.ca[cr].mark = 0]), i - 1, trail_sz)
      ELSE Unlocked(Unlock(S))

\* Variant of validateRest that marks nothing
validateRest_none(S, i) == S

\* 'find core clauses in the rest of the trail'
RECURSIVE validateRest(_, _)
validateRest(S, i) ==
  IF i < 1 THEN S
  ELSE LET r == reason(S, var(S.trail[i])) IN
       IF r = CRef_Undef
       THEN validateRest(Fail(S, "validate: reason (var (trail [i])) != CRef_Undef"), i - 1)
       ELSE IF S.ca[r].core
            THEN validateRest(markTailCore(S, S.ca[r].lits, 2,
                                           "validate: ca[CRef_Undef] read"), i - 1)
            ELSE validateRest(S, i - 1)

\* validate(), entered with its three asserts holding
validate(S) ==
  LET lastcr == S.proof[Len(S.proof)]
      Rest(T) == validateRest(T, Len(T.trail))
      Walked(w) ==
        IF ~w.ret THEN [st |-> w.st, ret |-> FALSE]
        ELSE [st |-> Rest(shrinkTrail(w.st, w.trail_sz)), ret |-> TRUE]
      Walk(T) == Walked(validateLoop(T, Len(T.proof) - 1, Len(T.trail)))
      Last(f) == IF ~f.ret THEN f ELSE Walk([f.st EXCEPT !.ok = TRUE])
  IN  Last(validateLast([S EXCEPT !.ca[lastcr].core = TRUE], S.ca[lastcr].lits, 1))

\* ------------------------------------------------------------------------
\* replay, traverseProof, labelLevel0, labelFinal
\* ------------------------------------------------------------------------
\* The ProofVisitor v is a record: chainClauses, chainPivots and calls, the
\* calls of its visit functions in order.  A replay works on R = [st, v].
Visit(kind, parent, p1, p2, clauses, pivots) ==
  [kind |-> kind, parent |-> parent, p1 |-> p1, p2 |-> p2,
   clauses |-> clauses, pivots |-> pivots]

\* v.visitResolvent(resolvent, p1, p2)
visitResolvent(V, resolvent, p1, p2) ==
  [V EXCEPT !.calls = Append(@, Visit("visitResolvent", resolvent, p1, p2, << >>, << >>))]

\* v.visitChainResolvent(parent), parent a literal or a clause
visitChainResolvent(V, kind, parent) ==
  [V EXCEPT !.calls = Append(@, Visit(kind, parent, 0, 0, V.chainClauses, V.chainPivots))]

\* the literals ~c[from..] of a clause
NegatedFrom(lits, from) == [j \in 1..(Len(lits) - from + 1) |-> 0 - lits[j + from - 1]]

\* Variant of labelFinal that leaves the first literal of the conflict clause
\* out of the pivots
labelFinal_skipFirst(R, confl) ==
  [R EXCEPT !.v = visitChainResolvent(
                    [@ EXCEPT !.chainClauses = << confl >>,
                              !.chainPivots = NegatedFrom(R.st.ca[confl].lits, 2)],
                    "visitChainResolvent(CRef)", CRef_Undef)]

labelFinal(R, confl) ==
  [R EXCEPT !.v = visitChainResolvent(
                    [@ EXCEPT !.chainClauses = << confl >>,
                              !.chainPivots = NegatedFrom(R.st.ca[confl].lits, 1)],
                    "visitChainResolvent(CRef)", CRef_Undef)]

\* the loop of labelLevel0 over trail[i], i the C++ index
RECURSIVE LabelLoop(_, _)
LabelLoop(R, i) ==
  LET S == R.st
      r == reason(S, var(S.trail[i + 1]))
      Binary(V) == visitResolvent(V, S.trail[i + 1], 0 - S.ca[r].lits[2], r)
      Chain(V) ==
        visitChainResolvent([V EXCEPT !.chainClauses = << r >>,
                                      !.chainPivots = NegatedFrom(S.ca[r].lits, 2)],
                            "visitChainResolvent(Lit)", S.trail[i + 1])
  IN  IF i > Len(S.trail) - 1 THEN R
      ELSE IF i < 0
      THEN LabelLoop([R EXCEPT !.st = Fail(@, "labelLevel0: trail[-1] read")], i + 1)
      ELSE IF r = CRef_Undef \/ Len(S.ca[r].lits) = 1 THEN LabelLoop(R, i + 1)
      ELSE IF Len(S.ca[r].lits) = 2 THEN LabelLoop([R EXCEPT !.v = Binary(@)], i + 1)
      ELSE LabelLoop([R EXCEPT !.v = Chain(@)], i + 1)

labelLevel0(R) ==
  [LabelLoop(R, R.st.start) EXCEPT !.st.start = Len(R.st.trail) - 1]

\* the walk of traverseProof up the trail; i is the position in trail
RECURSIVE TraverseLoop(_, _, _)
TraverseLoop(R, i, pathC) ==
  LET S == R.st
      x == var(S.trail[i])
      r == reason(S, x)
      Seen(T, vs) == [T EXCEPT !.st.seen = [y \in 1..nVars(R.st) |-> IF y \in vs THEN 1 ELSE @[y]]]
      Unseen(T) == [T EXCEPT !.st.seen[x] = 0]
      Pivot(T) == [T EXCEPT !.v.chainPivots = Append(@, S.trail[i])]
      Antecedent(T) == [T EXCEPT !.v.chainClauses = Append(@, r)]
      Checked(T) ==
        IF value(S, S.ca[r].lits[1]) = l_True THEN T
        ELSE [T EXCEPT !.st = Fail(@, "traverseProof: value (r[0]) == l_True")]
      Fresh == {var(S.ca[r].lits[j]) : j \in {k \in 2..Len(S.ca[r].lits) :
                                               S.seen[var(S.ca[r].lits[k])] = 0}}
  IN  IF pathC <= 0 THEN R
      ELSE IF i < 1 THEN [R EXCEPT !.st = Fail(@, "traverseProof: i >= 0")]
      ELSE IF S.seen[x] = 0 THEN TraverseLoop(R, i - 1, pathC)
      ELSE IF level(S, x) = 1 THEN TraverseLoop(Unseen(R), i - 1, pathC - 1)
      ELSE IF r = CRef_Undef
      THEN IF level(S, x) > 0
           THEN [Unseen(R) EXCEPT !.st = Fail(@, "traverseProof: reason (x) != CRef_Undef")]
           ELSE TraverseLoop(
                  [Pivot(Unseen(R)) EXCEPT
                     !.st = Fail(@, "traverseProof: reason (x) != CRef_Undef")],
                  i - 1, pathC - 1)
      ELSE IF level(S, x) > 0
      THEN TraverseLoop(Seen(Checked(Antecedent(Pivot(Unseen(R)))), Fresh),
                        i - 1, pathC - 1 + Cardinality(Fresh))
      ELSE TraverseLoop(Pivot(Unseen(R)), i - 1, pathC - 1)

\* the chain that traverseProof hands to the visitor: the conflict clause
\* first, every further clause the reason of the pivot one place before it,
\* with the pivot as its literal 0, and every pivot after those a literal of
\* the trail at level 0
chainPaired(S, confl, chainClauses, chainPivots) ==
  /\ Len(chainClauses) >= 1
  /\ chainClauses[1] = confl
  /\ Len(chainPivots) >= Len(chainClauses) - 1
  /\ \A i \in 1..(Len(chainClauses) - 1) :
        /\ i <= Len(chainPivots)
        /\ chainClauses[i + 1] # CRef_Undef
        /\ chainClauses[i + 1] = reason(S, var(chainPivots[i]))
        /\ S.ca[chainClauses[i + 1]].lits[1] = chainPivots[i]
  /\ \A i \in Len(chainClauses)..Len(chainPivots) :
        /\ level(S, var(chainPivots[i])) = 0
        /\ \E k \in 1..Len(S.trail) : S.trail[k] = chainPivots[i]

\* Variant of traverseProof that starts the chain without the conflict clause
traverseProof_noConflict(R, proofClause, confl) ==
  LET conflC == R.st.ca[confl].lits
      Begin == [R EXCEPT !.st.seen = [y \in 1..nVars(R.st) |->
                                        IF \E i \in 1..Len(conflC) : var(conflC[i]) = y
                                        THEN 1 ELSE @[y]],
                         !.v.chainClauses = << >>,
                         !.v.chainPivots = << >>]
      Paired(T) ==
        [T EXCEPT !.st = Observe(@, chainPaired(@, confl, T.v.chainClauses, T.v.chainPivots),
                                 "traverseProof: chain")]
      Walked(T) ==
        IF Len(T.v.chainPivots) = 0 THEN [r |-> T, ret |-> FALSE]
        ELSE [r |-> [Paired(T) EXCEPT !.v = visitChainResolvent(@, "visitChainResolvent(CRef)",
                                                                proofClause)],
              ret |-> TRUE]
  IN  Walked(TraverseLoop(Begin, Len(R.st.trail), Len(conflC)))

traverseProof(R, proofClause, confl) ==
  LET conflC == R.st.ca[confl].lits
      Begin == [R EXCEPT !.st.seen = [y \in 1..nVars(R.st) |->
                                        IF \E i \in 1..Len(conflC) : var(conflC[i]) = y
                                        THEN 1 ELSE @[y]],
                         !.v.chainClauses = << confl >>,
                         !.v.chainPivots = << >>]
      Cleared(T) ==
        [T EXCEPT !.st = Observe(@, seenClear(R.st) => seenClear(@), "traverseProof: seen")]
      Paired(T) ==
        [T EXCEPT !.st = Observe(@, chainPaired(@, confl, T.v.chainClauses, T.v.chainPivots),
                                 "traverseProof: chain")]
      Walked(T) ==
        IF Len(T.v.chainPivots) = 0 THEN [r |-> T, ret |-> FALSE]
        ELSE [r |-> [Paired(T) EXCEPT !.v = visitChainResolvent(@, "visitChainResolvent(CRef)",
                                                                proofClause)],
              ret |-> TRUE]
  IN  Walked(Cleared(TraverseLoop(Begin, Len(R.st.trail), Len(conflC))))

\* the loop of replay over proof[i], i the position in proof; done: the
\* loop was left by break
RECURSIVE ReplayLoop(_, _)
ReplayLoop(R, i) ==
  LET cr == R.st.proof[i]
      c  == R.st.ca[R.st.proof[i]]
      Delete(S) == [(IF Len(c.lits) > 1 THEN detachClause(S, cr) ELSE S)
                      EXCEPT !.ca[cr].mark = 1]
      Assume(S) ==
        newDecisionLevel(enqueueNegated(
          newDecisionLevel(Required(S, value(S, c.lits[1]) = l_Undef,
                                    "replay: value (c[0]) == l_Undef")),
          c.lits, 1))
      \* the unit clause is enqueued and propagated
      Labelled(T, confl) ==
        IF confl # CRef_Undef THEN labelFinal(T, confl) ELSE ReplayLoop(T, i + 1)
      Derived(T, p) == Labelled(labelLevel0([T EXCEPT !.st = p.st]), p.confl)
      Unit(T) ==
        Derived(T, propagate(
                     uncheckedEnqueue(
                       Required(T.st, value(T.st, c.lits[1]) = l_Undef,
                                "replay: value (c[0]) == l_Undef"),
                       c.lits[1], cr),
                     TRUE))
      Undelete(T) ==
        IF Len(c.lits) <= 1 \/ value(T.st, c.lits[2]) = l_False THEN Unit(T)
        ELSE ReplayLoop([T EXCEPT !.st = attachClause(@, cr)], i + 1)
      Traversed(t) ==
        IF t.ret
        THEN Undelete([t.r EXCEPT !.st = [cancelUntil(@, 0) EXCEPT !.ca[cr].mark = 0]])
        ELSE ReplayLoop([t.r EXCEPT !.st = cancelUntil(@, 0)], i + 1)
      Conflict(T, p) ==
        IF p.confl = CRef_Undef
        THEN [T EXCEPT !.st = Required(p.st, FALSE, "replay: p != CRef_Undef")]
        ELSE Traversed(traverseProof(
                         [T EXCEPT !.st = Observe(p.st, p.st.ca[p.confl].core,
                                                  "replay: conflict clause is core")],
                         cr, p.confl))
  IN  IF i > Len(R.st.proof) THEN R
      ELSE IF c.mark = 0 /\ ~locked(R.st, cr) /\ ~c.core
      THEN ReplayLoop([R EXCEPT !.st = Delete(@)], i + 1)
      ELSE IF ~c.core \/ c.mark = 0 THEN ReplayLoop(R, i + 1)
      ELSE Conflict(R, propagate(Assume(R.st), TRUE))

\* replay(v), entered with its first two asserts holding
replay(S, V) ==
  LET Consistent(p) ==
        Required(p.st, p.confl = CRef_Undef, "replay: confl == CRef_Undef")
      Final(T) == IF Len(T.st.proof) = 1 THEN labelFinal(T, T.st.proof[1]) ELSE T
  IN  Final(ReplayLoop(labelLevel0([st |-> Consistent(propagate(S, TRUE)), v |-> V]), 1))

\* ------------------------------------------------------------------------
\* The state: the members of Solver, and the caller's position
\* ------------------------------------------------------------------------
VARIABLES
  log_proof, ccmin_mode, phase_saving, random_var_freq, ok, ca, clauses, learnts,
  proof,
  watches, dirty, assigns, vardata, trail, trail_lim, qhead, polarity,
  order_heap, seen, trail_part, partInfo, totalPart, model, conflict,
  assumptions, simpDB_assigns, simpDB_props, clauses_literals,
  learnts_literals, learntsize_factor, max_learnts, learntsize_adjust_confl,
  learntsize_adjust_cnt, conflicts, asynch_interrupt, start, err, pc,
  status, conflictC, curr_restarts, added, input, ret, op, solves, visitor,
  reduced, prev_sat, dimacs, broken

solverVars ==
  <<log_proof, ccmin_mode, phase_saving, random_var_freq, ok, ca, clauses, learnts,
    proof,
    watches, dirty, assigns, vardata, trail, trail_lim, qhead, polarity,
    order_heap, seen, trail_part, partInfo, totalPart, model, conflict,
    assumptions, simpDB_assigns, simpDB_props, clauses_literals,
    learnts_literals, learntsize_factor, max_learnts, learntsize_adjust_confl,
    learntsize_adjust_cnt, conflicts, asynch_interrupt, start, err, broken>>
vars ==
  <<log_proof, ccmin_mode, phase_saving, random_var_freq, ok, ca, clauses, learnts,
    proof,
    watches, dirty, assigns, vardata, trail, trail_lim, qhead, polarity,
    order_heap, seen, trail_part, partInfo, totalPart, model, conflict,
    assumptions, simpDB_assigns, simpDB_props, clauses_literals,
    learnts_literals, learntsize_factor, max_learnts, learntsize_adjust_confl,
    learntsize_adjust_cnt, conflicts, asynch_interrupt, start, err, pc,
    status, conflictC, curr_restarts, added, input, ret, op, solves,
    visitor, reduced, prev_sat, dimacs, broken>>

\* the solver as a record, and the assignment of a record to the solver
St ==
  [log_proof |-> log_proof,
   ccmin_mode |-> ccmin_mode,
   phase_saving |-> phase_saving,
   random_var_freq |-> random_var_freq,
   ok |-> ok,
   ca |-> ca,
   clauses |-> clauses,
   learnts |-> learnts,
   proof |-> proof,
   watches |-> watches,
   dirty |-> dirty,
   assigns |-> assigns,
   vardata |-> vardata,
   trail |-> trail,
   trail_lim |-> trail_lim,
   qhead |-> qhead,
   polarity |-> polarity,
   order_heap |-> order_heap,
   seen |-> seen,
   trail_part |-> trail_part,
   partInfo |-> partInfo,
   totalPart |-> totalPart,
   model |-> model,
   conflict |-> conflict,
   assumptions |-> assumptions,
   simpDB_assigns |-> simpDB_assigns,
   simpDB_props |-> simpDB_props,
   clauses_literals |-> clauses_literals,
   learnts_literals |-> learnts_literals,
   learntsize_factor |-> learntsize_factor,
   max_learnts |-> max_learnts,
   learntsize_adjust_confl |-> learntsize_adjust_confl,
   learntsize_adjust_cnt |-> learntsize_adjust_cnt,
   conflicts |-> conflicts,
   asynch_interrupt |-> asynch_interrupt,
   start |-> start,
   err |-> err,
   broken |-> broken]

Set(R) ==
  /\ log_proof' = R.log_proof
  /\ ccmin_mode' = R.ccmin_mode
  /\ phase_saving' = R.phase_saving
  /\ random_var_freq' = R.random_var_freq
  /\ ok' = R.ok
  /\ ca' = R.ca
  /\ clauses' = R.clauses
  /\ learnts' = R.learnts
  /\ proof' = R.proof
  /\ watches' = R.watches
  /\ dirty' = R.dirty
  /\ assigns' = R.assigns
  /\ vardata' = R.vardata
  /\ trail' = R.trail
  /\ trail_lim' = R.trail_lim
  /\ qhead' = R.qhead
  /\ polarity' = R.polarity
  /\ order_heap' = R.order_heap
  /\ seen' = R.seen
  /\ trail_part' = R.trail_part
  /\ partInfo' = R.partInfo
  /\ totalPart' = R.totalPart
  /\ model' = R.model
  /\ conflict' = R.conflict
  /\ assumptions' = R.assumptions
  /\ simpDB_assigns' = R.simpDB_assigns
  /\ simpDB_props' = R.simpDB_props
  /\ clauses_literals' = R.clauses_literals
  /\ learnts_literals' = R.learnts_literals
  /\ learntsize_factor' = R.learntsize_factor
  /\ max_learnts' = R.max_learnts
  /\ learntsize_adjust_confl' = R.learntsize_adjust_confl
  /\ learntsize_adjust_cnt' = R.learntsize_adjust_cnt
  /\ conflicts' = R.conflicts
  /\ asynch_interrupt' = R.asynch_interrupt
  /\ start' = R.start
  /\ err' = R.err
  /\ broken' = R.broken

Is(R) ==
  /\ log_proof = R.log_proof
  /\ ccmin_mode = R.ccmin_mode
  /\ phase_saving = R.phase_saving
  /\ random_var_freq = R.random_var_freq
  /\ ok = R.ok
  /\ ca = R.ca
  /\ clauses = R.clauses
  /\ learnts = R.learnts
  /\ proof = R.proof
  /\ watches = R.watches
  /\ dirty = R.dirty
  /\ assigns = R.assigns
  /\ vardata = R.vardata
  /\ trail = R.trail
  /\ trail_lim = R.trail_lim
  /\ qhead = R.qhead
  /\ polarity = R.polarity
  /\ order_heap = R.order_heap
  /\ seen = R.seen
  /\ trail_part = R.trail_part
  /\ partInfo = R.partInfo
  /\ totalPart = R.totalPart
  /\ model = R.model
  /\ conflict = R.conflict
  /\ assumptions = R.assumptions
  /\ simpDB_assigns = R.simpDB_assigns
  /\ simpDB_props = R.simpDB_props
  /\ clauses_literals = R.clauses_literals
  /\ learnts_literals = R.learnts_literals
  /\ learntsize_factor = R.learntsize_factor
  /\ max_learnts = R.max_learnts
  /\ learntsize_adjust_confl = R.learntsize_adjust_confl
  /\ learntsize_adjust_cnt = R.learntsize_adjust_cnt
  /\ conflicts = R.conflicts
  /\ asynch_interrupt = R.asynch_interrupt
  /\ start = R.start
  /\ err = R.err
  /\ broken = R.broken

\* ------------------------------------------------------------------------
\* Inputs
\* ------------------------------------------------------------------------
\* The sessions of a caller: the value it gives learntsize_factor (the
\* constructor sets 1/3; with 0, max_learnts is 0 and reduceDB runs as soon as
\* the learnt clauses are as many as the assigned literals) and the sequence
\* of clauses it may pass to add_clause, each clause with its partition, and
\* the number of calls of solve it makes at most.  A run passes a prefix of
\* the sequence and may make its first call of solve between any two clauses;
\* the calls of solve after the first are made when the whole sequence is
\* passed.
Cl(lits, p) == [lits |-> lits, part |-> RangeOf(p)]
Third == [num |-> 1, den |-> 3]
Zero == [num |-> 0, den |-> 1]
Half == [num |-> 1, den |-> 2]

Inputs ==
  << \* unsatisfiable, refuted by search after it learns a unit clause
     [nVars |-> 2, learntsize_factor |-> Third, solves |-> MaxSolves,
      clauses |-> << Cl(<< 1, 2 >>, 1), Cl(<< -2, 1 >>, 1), Cl(<< -1, 2 >>, 2),
                     Cl(<< -1, -2 >>, 2) >>],
     \* a unit clause whose propagation falsifies an earlier clause
     [nVars |-> 2, learntsize_factor |-> Third, solves |-> MaxSolves,
      clauses |-> << Cl(<< -1, 2 >>, 1), Cl(<< -2, -1 >>, 1), Cl(<< 1 >>, 2) >>],
     \* satisfied, tautological and repeated literals; clauses falsified and
     \* made unit by the level-0 trail
     [nVars |-> 4, learntsize_factor |-> Third, solves |-> MaxSolves,
      clauses |-> << Cl(<< 3 >>, 1), Cl(<< 1, 3 >>, 1), Cl(<< 2, -2 >>, 1),
                     Cl(<< 4, -3, 4 >>, 2), Cl(<< -4, -3 >>, 2) >>],
     \* the empty clause
     [nVars |-> 3, learntsize_factor |-> Third, solves |-> MaxSolves,
      clauses |-> << Cl(<< -3, 1 >>, 1), Cl(<< >>, 2), Cl(<< 3 >>, 2) >>],
     \* a learnt clause of three literals
     [nVars |-> 4, learntsize_factor |-> Third, solves |-> MaxSolves,
      clauses |-> << Cl(<< 1, 3, 4 >>, 1), Cl(<< 2, 3, -4 >>, 2) >>],
     \* three conflicts with learnt clauses that stay in the database
     [nVars |-> 4, learntsize_factor |-> Zero, solves |-> 1,
      clauses |-> << Cl(<< 4, 3, 2 >>, 1), Cl(<< -3, -1, -4 >>, 1), Cl(<< 2, 3, -1 >>, 1),
                     Cl(<< -2, -1, 4 >>, 2), Cl(<< 2, -4, 1 >>, 2) >>],
     \* unsatisfiable: four clauses that force 1 and the unit -1, refuted
     \* through level-0 literals whose reasons have three literals
     [nVars |-> 4, learntsize_factor |-> Third, solves |-> MaxSolves,
      clauses |-> << Cl(<< -1 >>, 2), Cl(<< 1, 2, 3 >>, 1), Cl(<< 1, 2, -3 >>, 1),
                     Cl(<< 1, -2, 4 >>, 1), Cl(<< 1, -2, -4 >>, 2) >>],
     \* the same clauses with the unit last: a solve before it learns 1 from
     \* learnt clauses of two literals
     [nVars |-> 4, learntsize_factor |-> Third, solves |-> MaxSolves,
      clauses |-> << Cl(<< 1, 2, 3 >>, 1), Cl(<< 1, 2, -3 >>, 1), Cl(<< 1, -2, 4 >>, 1),
                     Cl(<< 1, -2, -4 >>, 2), Cl(<< -1 >>, 2) >>],
     \* a chain of three level-0 literals, the first from a unit clause of
     \* partition 1, and two clauses of partition 2 that conflict on the last
     [nVars |-> 5, learntsize_factor |-> Third, solves |-> MaxSolves,
      clauses |-> << Cl(<< 1 >>, 1), Cl(<< -1, 2 >>, 2), Cl(<< -2, 3 >>, 2),
                     Cl(<< -3, 4, 5 >>, 2), Cl(<< -3, 4, -5 >>, 2) >>],
     \* a unit clause, two clauses that force 1, a clause that 1 makes unit
     \* and that plays no part in the refutation, and the unit -1
     [nVars |-> 4, learntsize_factor |-> Third, solves |-> MaxSolves,
      clauses |-> << Cl(<< 3 >>, 1), Cl(<< 1, 2 >>, 1), Cl(<< 1, -2 >>, 1),
                     Cl(<< -1, 4 >>, 2), Cl(<< -1 >>, 2) >>],
     \* a clause that is attached and then satisfied at level 0 by a unit
     \* clause, so that simplify deletes it, and the negated unit
     [nVars |-> 2, learntsize_factor |-> Third, solves |-> MaxSolves,
      clauses |-> << Cl(<< 1, 2 >>, 1), Cl(<< 1 >>, 1), Cl(<< -1 >>, 2) >>] >>

\* the assumption vectors a caller may set before solve
AssumptionChoices == { << >>, << -1 >>, << 2, 1 >> }

\* Solver(): the members after the constructor, the options log_proof,
\* ccmin_mode and phase_saving as given.  max_learnts, learntsize_adjust_confl
\* and learntsize_adjust_cnt are left uninitialised: solve_ writes them
\* before search reads them.
Constructor(valid, ccmin, phase) ==
  [log_proof |-> valid, ccmin_mode |-> ccmin, phase_saving |-> phase,
   random_var_freq |-> [num |-> 0, den |-> 1],
   ok |-> TRUE, ca |-> << >>, clauses |-> << >>, learnts |-> << >>,
   proof |-> << >>, watches |-> << >>, dirty |-> {}, assigns |-> << >>,
   vardata |-> << >>, trail |-> << >>, trail_lim |-> << >>, qhead |-> 0,
   polarity |-> << >>, order_heap |-> {}, seen |-> << >>,
   trail_part |-> << >>, partInfo |-> << >>, totalPart |-> RangeUndef,
   model |-> << >>, conflict |-> << >>, assumptions |-> << >>,
   simpDB_assigns |-> -1, simpDB_props |-> 0, clauses_literals |-> 0,
   learnts_literals |-> 0, learntsize_factor |-> [num |-> 1, den |-> 3],
   max_learnts |-> [num |-> 0, den |-> 1],
   learntsize_adjust_confl |-> [num |-> 0, den |-> 1],
   learntsize_adjust_cnt |-> 0, conflicts |-> 0, asynch_interrupt |-> FALSE,
   start |-> 0, err |-> "", broken |-> {}]

\* newVar(sign, dvar) with dvar = true
newVar(S, sgn) ==
  insertVarOrder(
    [S EXCEPT !.watches = @ @@ [l \in {nVars(S) + 1, 0 - (nVars(S) + 1)} |-> << >>],
              !.assigns = Append(@, l_Undef),
              !.vardata = Append(@, [reason |-> CRef_Undef, level |-> 0]),
              !.seen = Append(@, 0),
              !.polarity = Append(@, sgn),
              !.partInfo = Append(@, RangeUndef),
              !.trail_part = Append(@, RangeUndef)],
    nVars(S) + 1)

RECURSIVE NewVars(_, _)
NewVars(S, n) == IF n = nVars(S) THEN S ELSE NewVars(newVar(S, TRUE), n)

\* reduced records the call of reduceDB made by the last step, if any: the
\* list learnts and the locked clauses of it on entry
NoReduce == [called |-> FALSE, learnts |-> << >>, locked |-> {}]
ReduceCall(S) ==
  [called |-> TRUE, learnts |-> S.learnts,
   locked |-> {S.learnts[i] : i \in {j \in 1..Len(S.learnts) : locked(S, S.learnts[j])}}]

\* ------------------------------------------------------------------------
\* Writing CNF to DIMACS
\* ------------------------------------------------------------------------
\* map is kept as the sequence of the variables in the order mapVar gave them
\* numbers: map[x] + 1 is the position of x in it and max is its length
mapped(map, x) == \E i \in 1..Len(map) : map[i] = x
mapVar(x, map) == IF mapped(map, x) THEN map ELSE Append(map, x)
mapNum(x, map) == CHOOSE i \in 1..Len(map) : map[i] = x

RECURSIVE mapLits(_, _, _, _)
mapLits(S, lits, j, map) ==
  IF j > Len(lits) THEN map
  ELSE mapLits(S, lits, j + 1,
               IF value(S, lits[j]) # l_False THEN mapVar(var(lits[j]), map) ELSE map)

RECURSIVE mapClauses(_, _, _)
mapClauses(S, i, map) ==
  IF i > Len(S.clauses) THEN map
  ELSE mapClauses(S, i + 1,
                  IF ~satisfied(S, S.ca[S.clauses[i]])
                  THEN mapLits(S, S.ca[S.clauses[i]].lits, 1, map) ELSE map)

\* a printed literal: the sign and the number mapVar gives plus one
printLit(l, map) == IF sign(l) THEN 0 - mapNum(var(l), map) ELSE mapNum(var(l), map)

\* toDimacs(f, c, map, max): the line of one clause, without the closing 0
RECURSIVE clauseLine(_, _, _, _, _)
clauseLine(S, lits, j, map, line) ==
  IF j > Len(lits) THEN [map |-> map, line |-> line]
  ELSE IF value(S, lits[j]) # l_False
       THEN LET m == mapVar(var(lits[j]), map)
            IN  clauseLine(S, lits, j + 1, m, Append(line, printLit(lits[j], m)))
       ELSE clauseLine(S, lits, j + 1, map, line)

RECURSIVE clauseLines(_, _, _, _)
clauseLines(S, i, map, lines) ==
  IF i > Len(S.clauses) THEN lines
  ELSE IF satisfied(S, S.ca[S.clauses[i]])
       THEN clauseLines(S, i + 1, map, lines)
       ELSE LET r == clauseLine(S, S.ca[S.clauses[i]].lits, 1, map, << >>)
            IN  clauseLines(S, i + 1, r.map, Append(lines, r.line))

\* the unit lines of the member assumptions; stops at a False one (assert)
RECURSIVE assumptionLines(_, _, _, _)
assumptionLines(S, i, map, lines) ==
  IF i > Len(S.assumptions) THEN [map |-> map, lines |-> lines, failed |-> FALSE]
  ELSE IF value(S, S.assumptions[i]) = l_False
       THEN [map |-> map, lines |-> lines, failed |-> TRUE]
       ELSE LET m == mapVar(var(S.assumptions[i]), map)
            IN  assumptionLines(S, i + 1, m, Append(lines, << printLit(S.assumptions[i], m) >>))

\* toDimacs(f, assumps): the two numbers of the header and the lines of the
\* body.  The body reads the member assumptions, assumps is not read.
toDimacs(S, assumps) ==
  IF ~S.ok
  THEN [max |-> 1, cnt |-> 2, lines |-> << << 1 >>, << -1 >> >>, failed |-> FALSE]
  ELSE LET map == mapClauses(S, 1, << >>)
           cnt == Cardinality({i \in 1..Len(S.clauses) : ~satisfied(S, S.ca[S.clauses[i]])})
                    + Len(S.assumptions)
           a   == assumptionLines(S, 1, map, << >>)
       IN  [max |-> Len(map), cnt |-> cnt,
            lines |-> IF a.failed THEN a.lines ELSE clauseLines(S, 1, a.map, a.lines),
            failed |-> a.failed]

\* dimacs holds the arguments and the output of the toDimacs call of the
\* last step
NoDimacs == [called |-> FALSE]
DimacsCall(S, assumps) == [called |-> TRUE, assumps |-> assumps, out |-> toDimacs(S, assumps)]

\* prev_sat records, while a solve runs and after it returns, the model and
\* the assumptions of the solve before it when that solve returned Sat and no
\* clause was added since
NoPrevSat == [sat |-> FALSE, model |-> << >>, assumptions |-> << >>]
PrevSat(S) == [sat |-> TRUE, model |-> S.model, assumptions |-> S.assumptions]

\* The sessions in which the minimisation of analyze with ccmin_mode 2 meets
\* a literal that is not redundant after it has pushed another, and one that
\* is redundant through a pushed literal.  In both, deciding -1 makes 2 and
\* then 3 True at level 1, and deciding -4 at level 2 ends in a conflict
\* whose clause holds -3.
MinimizeInputs ==
  << \* 3 follows from 2, 2 from the decision -1, which is not in the clause
     [nVars |-> 5, learntsize_factor |-> Third, solves |-> 1,
      clauses |-> << Cl(<< 1, 2 >>, 2), Cl(<< -2, 3 >>, 2), Cl(<< 4, -3, 5 >>, 1),
                     Cl(<< 4, -3, -5 >>, 1) >>],
     \* the same with the decision -1 falsifying a literal of the clause
     [nVars |-> 5, learntsize_factor |-> Third, solves |-> 1,
      clauses |-> << Cl(<< 1, 2 >>, 2), Cl(<< -2, 3 >>, 2), Cl(<< 1, 4, -3, 5 >>, 1),
                     Cl(<< 4, -3, -5 >>, 1) >>] >>

\* The sessions refuted on the level-0 trail through chains of reasons: the
\* final conflict clause depends on clauses that are the reason of no literal
\* of it.
ProofInputs ==
  << \* no search: 1, then 2 and 3 by propagation, and the unit -3
     [nVars |-> 3, learntsize_factor |-> Third, solves |-> 1,
      clauses |-> << Cl(<< 1 >>, 1), Cl(<< 2, -1 >>, 1), Cl(<< 3, -2 >>, 2),
                     Cl(<< -3 >>, 2) >>],
     \* search learns the unit 1; 3 follows from it and the earlier 4, and
     \* falsifies the last clause
     [nVars |-> 4, learntsize_factor |-> Third, solves |-> 1,
      clauses |-> << Cl(<< 4 >>, 1), Cl(<< 1, 2 >>, 1), Cl(<< 1, -2 >>, 1),
                     Cl(<< 3, -1, -4 >>, 2), Cl(<< -3, -1 >>, 2) >>],
     \* 5 and then 4 are on the trail before search learns a unit clause; at
     \* level 0 it makes one of the last two clauses the reason of a literal
     \* and falsifies the other
     [nVars |-> 5, learntsize_factor |-> Third, solves |-> 1,
      clauses |-> << Cl(<< 5 >>, 1), Cl(<< 4, -5 >>, 1), Cl(<< 1, 2 >>, 2),
                     Cl(<< 1, -2 >>, 2), Cl(<< -1, 3, -4 >>, 2),
                     Cl(<< -1, -3, -4 >>, 2) >>],
     \* 5 is on the trail; search learns a clause of 1 and 2 after two
     \* decisions and then a unit clause, which is refuted at level 0
     [nVars |-> 5, learntsize_factor |-> Third, solves |-> 1,
      clauses |-> << Cl(<< 5 >>, 1), Cl(<< 1, 2, 3 >>, 1), Cl(<< 1, 2, -3 >>, 1),
                     Cl(<< 1, -2 >>, 2), Cl(<< -1, 4 >>, 2), Cl(<< -1, -4 >>, 2) >>],
     \* nothing is on the trail before search learns a unit clause
     [nVars |-> 2, learntsize_factor |-> Third, solves |-> 1,
      clauses |-> << Cl(<< 1, 2 >>, 1), Cl(<< 1, -2 >>, 1), Cl(<< -1, 2 >>, 2),
                     Cl(<< -1, -2 >>, 2) >>] >>

\* The sessions in which reduceDB removes learnt clauses and search learns
\* after it.
ReduceInputs ==
  << \* satisfiable: a solve learns a clause of three literals, and a second
     \* solve under the assumption -1 runs reduceDB and learns again
     [nVars |-> 4, learntsize_factor |-> Third, solves |-> 2,
      clauses |-> << Cl(<< 1, 2, 3 >>, 1), Cl(<< 1, 2, -3 >>, 1),
                     Cl(<< 1, -2, 4 >>, 1) >>],
     \* max_learnts is 0: reduceDB runs in every iteration of search that has
     \* as many learnt clauses as assigned literals
     [nVars |-> 4, learntsize_factor |-> Zero, solves |-> 1,
      clauses |-> << Cl(<< 4, 3, 2 >>, 1), Cl(<< -3, -1, -4 >>, 1), Cl(<< 2, 3, -1 >>, 1),
                     Cl(<< -2, -1, 4 >>, 2), Cl(<< 2, -4, 1 >>, 2) >>] >>

Sessions == Inputs \o MinimizeInputs \o ProofInputs \o ReduceInputs

\* a solver with the options set and the variables of the input created
Init ==
  /\ input \in 1..Len(Inputs)
  /\ \E valid \in BOOLEAN, ccmin \in {0, 1, 2} :
       /\ valid => ccmin # 1
       /\ Is([NewVars(Constructor(valid, ccmin, 2), Min(Inputs[input].nVars, NVars))
                EXCEPT !.learntsize_factor = Inputs[input].learntsize_factor])
  /\ pc = "idle"
  /\ status = "none"
  /\ conflictC = 0
  /\ curr_restarts = 0
  /\ added = << >>
  /\ ret = FALSE
  /\ op = "new"
  /\ solves = 0
  /\ visitor = [chainClauses |-> << >>, chainPivots |-> << >>, calls |-> << >>]
  /\ reduced = NoReduce
  /\ prev_sat = NoPrevSat
  /\ dimacs = NoDimacs

\* ------------------------------------------------------------------------
\* Actions
\* ------------------------------------------------------------------------
\* add_clause(lits, partition)
AddClause ==
  /\ pc = "idle"
  /\ err = ""
  /\ ~asynch_interrupt
  /\ Len(added) < MaxClauses
  /\ Len(added) < Len(Sessions[input].clauses)
  /\ LET Returned(r) == Set(r.st) /\ ret' = r.ret
         Call(cl) == /\ Returned(addClause_(St, cl.lits, cl.part))
                     /\ added' = Append(added, cl.lits)
     IN  Call(Sessions[input].clauses[Len(added) + 1])
  /\ op' = "add_clause"
  /\ reduced' = NoReduce
  /\ prev_sat' = NoPrevSat
  /\ dimacs' = NoDimacs
  /\ UNCHANGED << pc, status, conflictC, curr_restarts, solves, input, visitor >>

\* solve(assumps): solve_ up to its first call of search; the session gives
\* the number of calls, and a call after the first has the whole input before
\* it
Solve ==
  /\ pc = "idle"
  /\ err = ""
  /\ ~asynch_interrupt
  /\ solves < Min(Sessions[input].solves, MaxSolves)
  /\ solves > 0 => Len(added) = Min(Len(Sessions[input].clauses), MaxClauses)
  /\ solves' = solves + 1
  /\ \E as \in AssumptionChoices :
       LET Begun(r) ==
             /\ Set(r.st)
             /\ IF r.ret = l_False
                THEN pc' = "idle" /\ status' = l_False /\ op' = "solve"
                ELSE pc' = "search" /\ status' = "none" /\ op' = "search"
       IN  Begun(solveBegin(St, as))
  /\ conflictC' = 0
  /\ curr_restarts' = 0
  /\ reduced' = NoReduce
  /\ prev_sat' = IF op = "solve" /\ status = l_True THEN PrevSat(St) ELSE NoPrevSat
  /\ dimacs' = NoDimacs
  /\ UNCHANGED << added, input, ret, visitor >>

\* search returns st to the loop of solve_, which either calls search again
\* or leaves the loop and returns
SearchReturn(S, st) ==
  IF withinBudget(S) /\ st = l_Undef
  THEN /\ Set(S)
       /\ pc' = "search"
       /\ curr_restarts' = curr_restarts + 1
       /\ conflictC' = 0
       /\ op' = "search"
       /\ UNCHANGED status
  ELSE /\ Set(solveEnd(S, st))
       /\ pc' = "idle"
       /\ status' = st
       /\ curr_restarts' = 0
       /\ conflictC' = 0
       /\ op' = "solve"

\* the decision at the end of an iteration of search
SearchDecide(S, next) ==
  /\ Set(uncheckedEnqueue(newDecisionLevel(S), next, CRef_Undef))
  /\ op' = "search"
  /\ UNCHANGED << pc, status, conflictC, curr_restarts >>

\* one iteration of the loop of search.  handler: the signal handler runs
\* during the iteration, after the iteration has read asynch_interrupt in
\* withinBudget() and before solve_ reads it when search has returned
SearchIteration(handler) ==
  LET Handled(S) == IF handler THEN [S EXCEPT !.asynch_interrupt = TRUE] ELSE S
      Picked(pk) ==
        IF pk.lit = lit_Undef THEN SearchReturn(Handled(pk.st), l_True)
        ELSE SearchDecide(Handled(pk.st), pk.lit)
      AtPick(T) == \E ch \in PickChoices(T) : Picked(pickBranchLit(T, ch))
      Assumed(a) ==
        IF a.ret = l_False THEN SearchReturn(Handled(a.st), l_False)
        ELSE IF a.next # lit_Undef THEN SearchDecide(Handled(a.st), a.next)
        ELSE AtPick(Observe(a.st, heapHolds(a.st), "pickBranchLit: order_heap"))
      Reduce(S) ==
        IF reduceDue(S)
        THEN /\ reduced' = ReduceCall(S)
             /\ \E order \in ReduceOrders(S) :
                \E lim \in 0..Len(S.learnts) : Assumed(assumeLoop(reduceDB(S, order, lim)))
        ELSE /\ reduced' = NoReduce
             /\ Assumed(assumeLoop(S))
      Simplified(sm) ==
        IF ~sm.ret THEN reduced' = NoReduce /\ SearchReturn(Handled(sm.st), l_False)
        ELSE Reduce(sm.st)
      NoConflict(S) ==
        IF conflictC >= nof_conflicts(curr_restarts) \/ ~withinBudget(S)
        THEN reduced' = NoReduce /\ SearchReturn(Handled(cancelUntil(S, 0)), l_Undef)
        ELSE Simplified(IF decisionLevel(S) = 0 THEN simplify(S)
                        ELSE [st |-> S, ret |-> TRUE])
      Conflicted(c) ==
        IF c.ret = l_False THEN SearchReturn(Handled(c.st), l_False)
        ELSE /\ Set(Handled(c.st))
             /\ conflictC' = conflictC + 1
             /\ op' = "search"
             /\ UNCHANGED << pc, status, curr_restarts >>
      Propagated(r) ==
        IF r.confl # CRef_Undef
        THEN /\ decisionLevel(r.st) = 0 \/ conflicts < MaxConflicts \/ ~withinBudget(r.st)
             /\ reduced' = NoReduce
             /\ Conflicted(searchConflict(r.st, r.confl))
        ELSE NoConflict(r.st)
  IN  /\ pc = "search"
      /\ err = ""
      /\ UNCHANGED << added, input, ret, solves, visitor, prev_sat, dimacs >>
      /\ Propagated(propagate(St, FALSE))

SearchStep == SearchIteration(FALSE)

\* the signal handler sets asynch_interrupt while solve runs (here: while the
\* first solve of the session runs)
Interrupt ==
  /\ pc = "search"
  /\ err = ""
  /\ solves = 1
  /\ ~asynch_interrupt
  /\ asynch_interrupt' = TRUE
  /\ UNCHANGED << log_proof, ccmin_mode, phase_saving, random_var_freq, ok, ca,
                  clauses, learnts,
                  proof, watches, dirty, assigns, vardata, trail, trail_lim, qhead,
                  polarity, order_heap, seen, trail_part, partInfo, totalPart, model,
                  conflict, assumptions, simpDB_assigns, simpDB_props,
                  clauses_literals, learnts_literals, learntsize_factor, max_learnts,
                  learntsize_adjust_confl, learntsize_adjust_cnt, conflicts, start,
                  err, pc, status, conflictC, curr_restarts, added, input, ret,
                  op, solves, visitor, reduced, prev_sat, dimacs, broken >>

\* validate(), called after solve returned Unsat
Validate ==
  /\ pc = "idle"
  /\ err = ""
  /\ op = "solve"
  /\ status = l_False
  /\ log_proof
  /\ IF ~ok /\ Len(proof) > 0
     THEN LET Returned(r) == Set(r.st) /\ ret' = r.ret
          IN  Returned(validate(St))
     ELSE /\ Set(Fail(St, IF ok THEN "validate: !ok" ELSE "validate: proof.size () > 0"))
          /\ ret' = FALSE
  /\ pc' = "validated"
  /\ op' = "validate"
  /\ reduced' = NoReduce
  /\ dimacs' = NoDimacs
  /\ UNCHANGED << status, conflictC, curr_restarts, added, input, solves, visitor,
                  prev_sat >>

\* replay(v), called after validate returned true
Replay ==
  /\ pc = "validated"
  /\ err = ""
  /\ ret
  /\ LET Returned(R) == Set(R.st) /\ visitor' = R.v
     IN  Returned(replay(St, visitor))
  /\ pc' = "replayed"
  /\ op' = "replay"
  /\ reduced' = NoReduce
  /\ dimacs' = NoDimacs
  /\ UNCHANGED << status, conflictC, curr_restarts, added, input, solves, ret,
                  prev_sat >>

\* toDimacs(f, assumps), called between the other calls; it changes no
\* member of the solver, so op keeps naming the call before it
ToDimacs ==
  /\ pc = "idle"
  /\ err = ""
  /\ \E as \in AssumptionChoices :
       LET Written(d) ==
             /\ dimacs' = d
             /\ Set(IF d.out.failed
                    THEN Fail(St, "toDimacs: assert value(assumptions[i]) != l_False")
                    ELSE St)
       IN  Written(DimacsCall(St, as))
  /\ UNCHANGED << pc, status, conflictC, curr_restarts, added, input, solves, ret,
                  op, visitor, reduced, prev_sat >>

Next ==
  \/ AddClause
  \/ Solve
  \/ SearchStep
  \/ Interrupt
  \/ Validate
  \/ Replay

Spec == Init /\ [][Next]_vars

\* the sessions that write the formula with toDimacs: clauses are added, the
\* first solve runs to its end, and toDimacs is called between them
SolveFirst == solves = 0 /\ Solve

DimacsNext ==
  \/ AddClause
  \/ SolveFirst
  \/ SearchStep
  \/ ToDimacs

DimacsSpec == Init /\ [][DimacsNext]_vars

\* the signal handler sets asynch_interrupt during an iteration of the loop
\* of search of the first solve
InterruptInStep ==
  /\ solves = 1
  /\ ~asynch_interrupt
  /\ SearchIteration(TRUE)

\* the sessions in which the signal handler may interrupt the first solve,
\* between two iterations of the loop of search or during one; while solve
\* runs, the loop of search goes on to its next iteration
InterruptNext ==
  \/ AddClause
  \/ SolveFirst
  \/ SearchStep
  \/ Interrupt
  \/ InterruptInStep

\* an iteration of the loop of search made while the flag is set: it counts
\* a conflict or ends the solve
SearchIterates ==
  /\ pc = "search"
  /\ err = ""
  /\ asynch_interrupt
  /\ pc' \in {"search", "idle"}
  /\ conflicts' \in {conflicts, conflicts + 1}

InterruptSpec ==
  Init /\ [][InterruptNext]_vars /\ WF_<<pc, conflicts>>(SearchIterates)

\* the sessions of MinimizeInputs with ccmin_mode 2: clauses are added and
\* the first solve runs to its end
MinimizeInit ==
  /\ input \in (Len(Inputs) + 1)..(Len(Inputs) + Len(MinimizeInputs))
  /\ \E valid \in BOOLEAN :
       Is([NewVars(Constructor(valid, 2, 2), Min(Sessions[input].nVars, NVars))
             EXCEPT !.learntsize_factor = Sessions[input].learntsize_factor])
  /\ pc = "idle"
  /\ status = "none"
  /\ conflictC = 0
  /\ curr_restarts = 0
  /\ added = << >>
  /\ ret = FALSE
  /\ op = "new"
  /\ solves = 0
  /\ visitor = [chainClauses |-> << >>, chainPivots |-> << >>, calls |-> << >>]
  /\ reduced = NoReduce
  /\ prev_sat = NoPrevSat
  /\ dimacs = NoDimacs

MinimizeNext ==
  \/ AddClause
  \/ SolveFirst
  \/ SearchStep

MinimizeSpec == MinimizeInit /\ [][MinimizeNext]_vars

\* the sessions of ProofInputs with log_proof and with random_var_freq 0 or
\* 1/2: clauses are added, the first solve runs to its end, and the proof is
\* validated and replayed
ProofInit ==
  /\ input \in (Len(Inputs) + Len(MinimizeInputs) + 1)
                 ..(Len(Inputs) + Len(MinimizeInputs) + Len(ProofInputs))
  /\ \E ccmin \in {0, 2}, rnd \in {Zero, Half} :
       Is([NewVars(Constructor(TRUE, ccmin, 2), Min(Sessions[input].nVars, NVars))
             EXCEPT !.learntsize_factor = Sessions[input].learntsize_factor,
                    !.random_var_freq = rnd])
  /\ pc = "idle"
  /\ status = "none"
  /\ conflictC = 0
  /\ curr_restarts = 0
  /\ added = << >>
  /\ ret = FALSE
  /\ op = "new"
  /\ solves = 0
  /\ visitor = [chainClauses |-> << >>, chainPivots |-> << >>, calls |-> << >>]
  /\ reduced = NoReduce
  /\ prev_sat = NoPrevSat
  /\ dimacs = NoDimacs

ProofNext ==
  \/ AddClause
  \/ SolveFirst
  \/ SearchStep
  \/ Validate
  \/ Replay

ProofSpec == ProofInit /\ [][ProofNext]_vars

\* the sessions of ReduceInputs with every setting of log_proof and
\* ccmin_mode: clauses are added and solve is called, a second time when the
\* session says so
ReduceInit ==
  /\ input \in (Len(Sessions) - Len(ReduceInputs) + 1)..Len(Sessions)
  /\ \E valid \in BOOLEAN, ccmin \in {0, 1, 2} :
       /\ valid => ccmin # 1
       /\ Is([NewVars(Constructor(valid, ccmin, 2), Min(Sessions[input].nVars, NVars))
                EXCEPT !.learntsize_factor = Sessions[input].learntsize_factor])
  /\ pc = "idle"
  /\ status = "none"
  /\ conflictC = 0
  /\ curr_restarts = 0
  /\ added = << >>
  /\ ret = FALSE
  /\ op = "new"
  /\ solves = 0
  /\ visitor = [chainClauses |-> << >>, chainPivots |-> << >>, calls |-> << >>]
  /\ reduced = NoReduce
  /\ prev_sat = NoPrevSat
  /\ dimacs = NoDimacs

ReduceNext ==
  \/ AddClause
  \/ Solve
  \/ SearchStep

ReduceSpec == ReduceInit /\ [][ReduceNext]_vars

\* ------------------------------------------------------------------------
\* Properties
\* ------------------------------------------------------------------------
\* literal l is True under the total or partial assignment m (a vector of lbool)
TrueIn(m, l) == m[var(l)] = (IF sign(l) THEN l_False ELSE l_True)

\* the clauses stored for add_clause calls (originals, deleted ones included)
Originals == {cr \in DOMAIN ca : ~ca[cr].learnt}

SetOf(ps) == {ps[i] : i \in 1..Len(ps)}

\* C1: when solve returns Sat, model has a value for every variable and every
\* clause ever passed to add_clause has a literal that is True under model,
\* the clauses add_clause dropped and the clauses deleted later included.
C1_ModelSatisfiesAdded ==
  (op = "solve" /\ status = l_True) =>
     /\ Len(model) = Len(vardata)
     /\ \A k \in 1..Len(added) :
          \E i \in 1..Len(added[k]) : TrueIn(model, added[k][i])

\* solve returned Sat with proof logging on, after add_clause dropped a
\* non-tautological clause as satisfied and after simplify deleted a stored one
C1_Witness ==
  /\ op = "solve" /\ status = l_True /\ log_proof
  /\ \E cr \in Originals : ca[cr].mark = 1
  /\ \E k \in 1..Len(added) :
       /\ \A l \in SetOf(added[k]) : (0 - l) \notin SetOf(added[k])
       /\ \A cr \in Originals : SetOf(ca[cr].lits) # SetOf(added[k])

\* a total assignment a (variable -> BOOLEAN) makes literal l true
Holds(a, l) == a[var(l)] = ~sign(l)

\* C2: when solve returns Unsat, no total assignment satisfies every clause
\* passed to add_clause together with every assumption literal.
C2_UnsatIsSound ==
  (op = "solve" /\ status = l_False) =>
     ~ \E a \in [1..Len(vardata) -> BOOLEAN] :
          /\ \A k \in 1..Len(added) : \E i \in 1..Len(added[k]) : Holds(a, added[k][i])
          /\ \A i \in 1..Len(assumptions) : Holds(a, assumptions[i])

\* solve returned Unsat from search after at least two conflicts, one of which
\* learnt a clause, on a formula none of whose added clauses is empty
C2_Witness ==
  /\ op = "solve" /\ status = l_False
  /\ conflicts >= 2
  /\ \E cr \in DOMAIN ca : ca[cr].learnt
  /\ \A k \in 1..Len(added) : added[k] # << >>

\* C3: with log_proof on, validate() called after solve returned Unsat finds
\* its preconditions met (ok false, proof non-empty, last proof clause all
\* False) and returns true.
C3_ValidateReturnsTrue ==
  op = "validate" => (ret /\ err = "")

\* literal l is False under the assignment m (a vector of lbool)
FalseIn(m, l) == m[var(l)] = (IF sign(l) THEN l_True ELSE l_False)

Last(s) == s[Len(s)]

\* C4: add_clause returns false exactly when ok is false on return; with ok
\* false on entry it returns false and changes nothing; once ok is false no
\* add_clause and no solve sets it back, and solve returns Unsat at once,
\* nothing propagated or decided.  (validate, which ends the session here,
\* assigns ok = true, Solver.cc line 135.)
C4_Step ==
  /\ (~ok /\ op' \in {"add_clause", "solve", "search"}) => ~ok'
  /\ added' # added =>
       /\ (ret' = FALSE) <=> ~ok'
       /\ ~ok => (ret' = FALSE /\ UNCHANGED solverVars)
  /\ (solves' # solves /\ ~ok) =>
       /\ status' = l_False /\ pc' = "idle" /\ op' = "solve"
       /\ UNCHANGED << ok, ca, clauses, learnts, proof, watches, assigns, vardata,
                       trail, trail_lim, qhead, order_heap, conflicts >>

C5_Step ==
  (log_proof /\ added' # added /\ ok /\ ~ok' /\ Last(added') # << >>) =>
     /\ Len(proof') = Len(proof) + 1
     /\ \A l \in SetOf(ca'[Last(proof')].lits) : FalseIn(assigns', l)

C5_ConflictClauseLogged == [][C5_Step]_vars

\* C6: with log_proof on, when search returns l_False on a conflict of
\* propagate at decision level 0, the conflict clause is the last proof entry
\* when solve returns, and each of its literals is False at level 0.
C6_Step ==
  (log_proof /\ pc = "search" /\ conflicts' = conflicts + 1
     /\ pc' = "idle" /\ status' = l_False) =>
     /\ Len(proof') = Len(proof) + 1
     /\ Last(proof') = propagate(St, FALSE).confl
     /\ trail_lim' = << >>
     /\ \A l \in SetOf(ca'[Last(proof')].lits) :
          FalseIn(assigns', l) /\ vardata'[var(l)].level = 0

C6_FinalConflictLogged == [][C6_Step]_vars

\* the first solve returned Unsat from a level-0 conflict of search, with
\* proof logging on, after a learnt clause was logged too
C6_Witness ==
  /\ op = "solve" /\ status = l_False /\ log_proof
  /\ solves = 1 /\ conflicts >= 2 /\ conflict = << >>
  /\ Len(proof) >= 2
  /\ \A l \in SetOf(ca[Last(proof)].lits) : FalseIn(assigns, l)

IsPrefix(s, t) == Len(s) <= Len(t) /\ SubSeq(t, 1, Len(s)) = s

\* C7: every step leaves the old proof as a prefix of the new one (entries
\* are only appended), and validate and replay leave it unchanged.
C7_Step ==
  /\ IsPrefix(proof, proof')
  /\ op' \in {"validate", "replay"} => proof' = proof

C7_ProofAppendOnly == [][C7_Step]_vars

\* replay has run over a proof that holds a deletion entry (a clause logged
\* by removeClause) besides the learnt and conflict clauses
C7_Witness ==
  /\ op = "replay" /\ err = ""
  /\ Len(proof) >= 3
  /\ \E i \in 1..Len(proof) : ~ca[proof[i]].learnt /\ i < Len(proof)

\* C8: removeClause(cr) on a clause of the database.  With log_proof on it
\* appends cr to the proof, detaches the clause if its size is > 1, sets its
\* mark to 1, and changes nothing else: the literals stay, the clause is not
\* freed, the reason pointing at it is kept; no clause is ever freed.  With
\* log_proof off it clears the reason of a locked clause's variable and
\* frees the clause.
C8_RemoveClause ==
  /\ log_proof => \A cr \in DOMAIN ca : ~ca[cr].freed /\ (ca[cr].mark = 1 => cr \in SetOf(proof))
  /\ \A cr \in SetOf(clauses) \cup SetOf(learnts) :
       LET Detached(S) == IF Len(ca[cr].lits) > 1 THEN detachClause(S, cr) ELSE S
           Removed(T) ==
             IF log_proof
             THEN T = [Detached(St) EXCEPT !.proof = Append(@, cr), !.ca[cr].mark = 1]
             ELSE /\ T.ca[cr].freed /\ T.ca[cr].mark = 1
                  /\ T.proof = proof
                  /\ locked(St, cr) => T.vardata[var(ca[cr].lits[1])].reason = CRef_Undef
                  /\ \A x \in 1..Len(vardata) :
                       (x # var(ca[cr].lits[1]) \/ ~locked(St, cr)) => T.vardata[x] = vardata[x]
       IN  Removed(removeClause(St, cr))

\* with log_proof on, simplify has removed a clause that is the reason of a
\* True literal: it is marked, logged, not freed, and still the reason
C8_Witness ==
  /\ log_proof
  /\ \E cr \in DOMAIN ca :
       /\ ca[cr].mark = 1 /\ ~ca[cr].freed /\ cr \in SetOf(proof)
       /\ locked(St, cr)

\* C9: with log_proof on, every literal of the trail at level 0 has a defined
\* reason, also after simplify has marked the reason clause deleted.
C9_Level0Reasons ==
  log_proof =>
    \A i \in 1..Len(trail) :
       vardata[var(trail[i])].level = 0 => vardata[var(trail[i])].reason # CRef_Undef

\* a level-0 literal of the trail whose reason clause simplify marked deleted
C9_Witness ==
  /\ log_proof /\ op = "solve"
  /\ \E i \in 1..Len(trail) :
       /\ vardata[var(trail[i])].level = 0
       /\ vardata[var(trail[i])].reason # CRef_Undef
       /\ ca[vardata[var(trail[i])].reason].mark = 1

\* C10: reduceDB removes no learnt clause of size 2 and no learnt clause that
\* is locked on entry, at any decision level; the clauses it keeps stay in
\* learnts, unmarked, and the clauses it removes leave learnts, marked.
C10_ReduceDBKeeps ==
  reduced.called =>
    /\ SetOf(learnts) \subseteq SetOf(reduced.learnts)
    /\ \A cr \in SetOf(reduced.learnts) :
         /\ (Len(ca[cr].lits) = 2 \/ cr \in reduced.locked) => cr \in SetOf(learnts)
         /\ cr \in SetOf(learnts) <=> ca[cr].mark = 0

\* reduceDB ran above level 0 with a locked learnt clause of three literals
\* and a learnt clause of two literals in learnts, and kept both
C10_Witness ==
  /\ reduced.called /\ Len(trail_lim) > 0
  /\ \E cr \in reduced.locked :
       Len(ca[cr].lits) > 2 /\ cr \in SetOf(learnts) /\ ca[cr].mark = 0
  /\ \E cr \in SetOf(reduced.learnts) :
       Len(ca[cr].lits) = 2 /\ cr \in SetOf(learnts) /\ ca[cr].mark = 0

\* C11: when the assumption loop of search meets an assumption whose value is
\* False, solve returns Unsat with a non-empty conflict whose first literal is
\* the negation of that assumption and whose every literal is the negation of
\* an assumption, and ok stays true; when solve returns Unsat with an empty
\* conflict, ok is false.  (A step of search leaves asynch_interrupt alone.)
C11_Step ==
  LET Met(S, k) ==
        /\ value(S, assumptions[k]) = l_False
        /\ \A j \in 1..(k - 1) : value(S, assumptions[j]) = l_True
      Reached(S) ==
        /\ conflictC < nof_conflicts(curr_restarts)
        /\ withinBudget(S)
        /\ decisionLevel(S) = 0 => simplify(S).ret
      Checked(P) ==
        /\ (pc' = "idle" /\ status' = l_False /\ conflict' # << >>) =>
              /\ ok'
              /\ P.confl = CRef_Undef
              /\ \E k \in 1..Len(assumptions) :
                    Met(P.st, k) /\ conflict'[1] = 0 - assumptions[k]
              /\ \A i \in 1..Len(conflict') : (0 - conflict'[i]) \in SetOf(assumptions)
        /\ (P.confl = CRef_Undef /\ Reached(P.st)
              /\ \E k \in 1..Len(assumptions) : Met(P.st, k)) =>
              /\ pc' = "idle" /\ status' = l_False /\ op' = "solve"
              /\ conflict' # << >>
  IN  /\ (pc = "search" /\ asynch_interrupt' = asynch_interrupt) =>
            Checked(propagate(St, FALSE))
      /\ (op' = "solve" /\ status' = l_False /\ conflict' = << >>) => ~ok'

C11_AssumptionConflict == [][C11_Step]_vars

\* solve returned Unsat under two assumptions with a conflict of two literals:
\* the second assumption was made False by propagating the first
C11_Witness ==
  /\ op = "solve" /\ status = l_False /\ ok
  /\ Len(assumptions) = 2 /\ Len(conflict) = 2
  /\ conflict[1] = 0 - assumptions[2]
  /\ conflict[2] = 0 - assumptions[1]

\* C12: when solve returns Sat, every literal of assumptions is True under
\* model.
C12_AssumptionsHold ==
  (op = "solve" /\ status = l_True) =>
     \A i \in 1..Len(assumptions) : TrueIn(model, assumptions[i])

\* the first solve of the session returned Sat under an assumption that was
\* taken as a decision (it is unassigned at level 0), after a conflict and a
\* backjump
C12_Witness ==
  /\ op = "solve" /\ status = l_True
  /\ Len(assumptions) >= 1 /\ conflicts >= 1 /\ solves = 1
  /\ assigns[var(assumptions[1])] = l_Undef
  /\ TrueIn(model, assumptions[1])

\* clause c with reference cr has a watcher in the lists ws of the negations
\* of its first two literals
Watched(ws, c, cr) ==
  /\ \E i \in 1..Len(ws[0 - c.lits[1]]) : ws[0 - c.lits[1]][i].cref = cr
  /\ \E i \in 1..Len(ws[0 - c.lits[2]]) : ws[0 - c.lits[2]][i].cref = cr

\* C13: whatever solve returns, on return the solver is at decision level 0,
\* every trail literal has level 0 and qhead is at most the trail length;
\* when it returns Unknown, ok is true, model and conflict are empty, the
\* returning step dropped no learnt clause, and every clause of learnts is
\* unmarked and watched.
C13_Step ==
  /\ op' = "solve" =>
        /\ trail_lim' = << >>
        /\ \A i \in 1..Len(trail') : vardata'[var(trail'[i])].level = 0
        /\ \A i \in 1..Len(trail') : TrueIn(assigns', trail'[i])
        /\ qhead' <= Len(trail')
  /\ (op' = "solve" /\ status' = l_Undef) =>
        /\ ok' /\ model' = << >> /\ conflict' = << >>
        /\ learnts' = learnts
        /\ \A i \in 1..Len(learnts') :
             ca'[learnts'[i]].mark = 0 /\ ca'[learnts'[i]].learnt
             /\ Watched(watches', ca'[learnts'[i]], learnts'[i])

C13_ReturnAtLevel0 == [][C13_Step]_vars

\* solve returned Unknown after an interrupt that followed a conflict, with
\* the learnt clause of that conflict in learnts
C13_Witness ==
  /\ op = "solve" /\ status = l_Undef /\ asynch_interrupt
  /\ Len(learnts) >= 1 /\ conflicts >= 1

\* the positions in the visitor's calls of visitChainResolvent(CRef_Undef)
FinalCalls ==
  {i \in 1..Len(visitor.calls) :
     visitor.calls[i].kind = "visitChainResolvent(CRef)"
       /\ visitor.calls[i].parent = CRef_Undef}

\* C14: a replay that follows a successful validate calls
\* visitChainResolvent(CRef_Undef) exactly once, as the last call of the
\* visitor; at that call chainClauses holds one clause, all of whose literals
\* are False, and chainPivots holds the negation of each of its literals in
\* order.
C14_FinalCallOnce ==
  op = "replay" =>
     /\ FinalCalls = {Len(visitor.calls)}
     /\ Len(visitor.calls) >= 1
     /\ LET Final(f) ==
              /\ Len(f.clauses) = 1
              /\ f.clauses[1] \in DOMAIN ca
              /\ \A l \in SetOf(ca[f.clauses[1]].lits) : FalseIn(assigns, l)
              /\ f.pivots = NegatedFrom(ca[f.clauses[1]].lits, 1)
        IN  Final(visitor.calls[Len(visitor.calls)])

\* the resolvent of the chain: cur resolved on pivots[i], pivots[i+1], ...
\* against clauses[i+1], ... or, past the end of clauses, against the unit
\* clause of the pivot; the pivot is the literal of the antecedent, its
\* negation the literal of cur.  {0} (no clause) when a step is not a
\* resolution step.
RECURSIVE Resolvent(_, _, _, _)
Resolvent(cur, cls, pivots, i) ==
  IF i > Len(pivots) THEN cur
  ELSE LET Step(p, D) ==
             IF (0 - p) \in cur /\ p \in D
             THEN Resolvent((cur \ {0 - p}) \cup (D \ {p}), cls, pivots, i + 1)
             ELSE {0}
       IN  Step(pivots[i],
                IF i + 1 <= Len(cls) THEN SetOf(ca[cls[i + 1]].lits) ELSE {pivots[i]})

\* the call f of the visitor is a chain of resolution steps that ends in its
\* parent
ChainYieldsParent(f) ==
  IF f.kind = "visitResolvent"
  THEN Resolvent(SetOf(ca[f.p2].lits), << f.p2 >>, << f.p1 >>, 1) = {f.parent}
  ELSE /\ Len(f.clauses) >= 1
       /\ Len(f.clauses) <= Len(f.pivots) + 1
       /\ Resolvent(SetOf(ca[f.clauses[1]].lits), f.clauses, f.pivots, 1)
            = (IF f.kind = "visitChainResolvent(Lit)" THEN {f.parent}
               ELSE IF f.parent = CRef_Undef THEN {}
               ELSE SetOf(ca[f.parent].lits))

ChainYieldsWithinParent(f) ==
  LET Level0False(l) == FalseIn(assigns, l) /\ vardata[var(l)].level = 0
      Within(res, parent) ==
        /\ res \subseteq parent
        /\ \A l \in parent \ res : Level0False(l)
  IN  IF f.kind = "visitResolvent"
      THEN Resolvent(SetOf(ca[f.p2].lits), << f.p2 >>, << f.p1 >>, 1) = {f.parent}
      ELSE /\ Len(f.clauses) >= 1
           /\ Len(f.clauses) <= Len(f.pivots) + 1
           /\ IF f.kind = "visitChainResolvent(Lit)"
              THEN Resolvent(SetOf(ca[f.clauses[1]].lits), f.clauses, f.pivots, 1) = {f.parent}
              ELSE IF f.parent = CRef_Undef
              THEN Resolvent(SetOf(ca[f.clauses[1]].lits), f.clauses, f.pivots, 1) = {}
              ELSE Within(Resolvent(SetOf(ca[f.clauses[1]].lits), f.clauses, f.pivots, 1),
                          SetOf(ca[f.parent].lits))

RECURSIVE UsedClauses(_, _, _, _, _)
UsedClauses(S, keep, todo, done, acc) ==
  IF todo = {} THEN acc
  ELSE LET x == CHOOSE y \in todo : TRUE
           More(r) == IF r = CRef_Undef THEN {}
                      ELSE {var(l) : l \in SetOf(S.ca[r].lits)} \ (keep \cup done \cup {x})
       IN  UsedClauses(S, keep, (todo \ {x}) \cup More(reason(S, x)),
                       done \cup {x}, acc \cup {reason(S, x)})

\* C16: with log_proof on, the partition range stored on a clause when search
\* learns it contains the partition of every input clause its derivation
\* uses: the conflict clause, the reasons of the literals resolved away above
\* level 0, and the reasons, taken transitively, of the level-0 literals
\* dropped.
C16_Step ==
  LET Vars(c) == {var(l) : l \in SetOf(c.lits)}
      Within(q, r) == ~undef(q) /\ ~undef(r) /\ r.lo <= q.lo /\ q.hi <= r.hi
      Sound(S, learnt, used) ==
        \A cl \in used \ {CRef_Undef} :
           ~S.ca[cl].learnt => Within(S.ca[cl].part, learnt.part)
      Learnt(P, learnt) ==
        Sound(P.st, learnt,
              UsedClauses(P.st, Vars(learnt), Vars(P.st.ca[P.confl]) \ Vars(learnt),
                          {}, {P.confl}))
  IN  (log_proof /\ pc = "search" /\ Len(ca') = Len(ca) + 1 /\ conflicts' = conflicts + 1) =>
         Learnt(propagate(St, FALSE), ca'[Len(ca')])

C16_PartitionContainsInputs == [][C16_Step]_vars


\* ------------------------------------------------------------------------
\* C17: when a solve returned Sat with model M and the next solve is called
\* with the same assumptions and no clause added in between (phase_saving = 2,
\* no random polarity, no random decisions), that solve returns Sat as well
\* and its model equals M on every variable.
\* ------------------------------------------------------------------------
C17_SameModelAgain ==
  (op = "solve" /\ prev_sat.sat /\ prev_sat.assumptions = assumptions) =>
     /\ status = l_True
     /\ Len(model) = Len(prev_sat.model)
     /\ \A x \in 1..Len(model) : model[x] = prev_sat.model[x]

\* the second solve returned Sat after a first solve that had a conflict, and
\* its model has a variable of each value
C17_Witness ==
  /\ op = "solve" /\ solves = 2 /\ prev_sat.sat /\ prev_sat.assumptions = assumptions
  /\ status = l_True /\ model = prev_sat.model /\ conflicts >= 1
  /\ \E x, y \in 1..Len(model) : model[x] = l_True /\ model[y] = l_False


\* ------------------------------------------------------------------------
\* C18: the output of toDimacs(f, assumps) with ok true has a header that
\* agrees with its body: clause_count is the number of lines written, which
\* is one per clause that is not satisfied plus one per literal of assumps,
\* and every variable number printed lies in 1..max_var.  (toDimacs leaves
\* the solver as it is, so the clauses are read from the state after it.)
\* ------------------------------------------------------------------------
Unsatisfied == {i \in 1..Len(clauses) : ~satisfied(St, ca[clauses[i]])}

Abs(n) == IF n < 0 THEN 0 - n ELSE n

C18_CountMatches ==
  (dimacs.called /\ ok /\ err = "") =>
     /\ dimacs.out.cnt = Len(dimacs.out.lines)
     /\ Len(dimacs.out.lines) = Cardinality(Unsatisfied) + Len(dimacs.assumps)

C18_VarsWithinMax ==
  (dimacs.called /\ ok /\ err = "") =>
     \A k \in 1..Len(dimacs.out.lines) : \A j \in 1..Len(dimacs.out.lines[k]) :
        Abs(dimacs.out.lines[k][j]) \in 1..dimacs.out.max

C18_HeaderMatchesBody == C18_CountMatches /\ C18_VarsWithinMax


ReasonIsUnit(i) ==
  LET p == trail[i]
      r == vardata[var(p)].reason
  IN  r # CRef_Undef =>
        /\ ca[r].lits[1] = p
        /\ \A j \in 2..Len(ca[r].lits) :
              /\ FalseIn(assigns, ca[r].lits[j])
              /\ \E k \in 1..(i - 1) : var(trail[k]) = var(ca[r].lits[j])

C21_ReasonsAreUnit == \A i \in 1..Len(trail) : ReasonIsUnit(i)

\* during search with log_proof a literal of a level above 0 has a learnt
\* clause of two or more literals as its reason (the asserting literal after
\* a backjump), and another literal was forced by propagate through a
\* clause given to add_clause
C21_Witness ==
  /\ pc = "search" /\ log_proof /\ err = ""
  /\ \E i \in 1..Len(trail) :
        /\ vardata[var(trail[i])].reason # CRef_Undef
        /\ vardata[var(trail[i])].level >= 1
        /\ ca[vardata[var(trail[i])].reason].learnt
        /\ Len(ca[vardata[var(trail[i])].reason].lits) >= 2
  /\ \E i \in 1..Len(trail) :
        /\ vardata[var(trail[i])].reason # CRef_Undef
        /\ ~ca[vardata[var(trail[i])].reason].learnt
        /\ Len(ca[vardata[var(trail[i])].reason].lits) >= 2


\* ------------------------------------------------------------------------
\* C22: decisionLevel() is the length of trail_lim; trail_lim is
\* non-decreasing and bounded by the length of the trail; for every k a
\* literal at a trail index from trail_lim[k] on has a recorded level of at
\* least k+1 (k counted from 0), and a literal below trail_lim[0] has level 0.
\* It holds between the calls and steps, and it held at every return of
\* propagate, the calls in validateLemma and replay at level 2 included.
\* ------------------------------------------------------------------------
C22_LevelsMatchTrailLim ==
  /\ decisionLevel(St) = Len(trail_lim)
  /\ levelsMatch(St)
  /\ "propagate: levels" \notin broken

\* search has opened a dummy decision level for an assumption that was
\* already True, so that two entries of trail_lim are equal, and a level
\* above it holds a literal
C22_Witness ==
  /\ pc = "search" /\ Len(trail_lim) >= 3
  /\ trail_lim[1] = trail_lim[2] /\ trail_lim[3] < Len(trail)

\* ------------------------------------------------------------------------
\* C23: whenever add_clause, solve, validate or replay has returned, a
\* variable is assigned if and only if exactly one literal of it is on the
\* trail, and its value makes that literal True.
\* ------------------------------------------------------------------------
TrailIndices(x) == {i \in 1..Len(trail) : var(trail[i]) = x}

C23_AssignedIffOnTrail ==
  (pc # "search" /\ op \in {"add_clause", "solve", "validate", "replay"}) =>
     \A x \in 1..Len(assigns) :
        /\ assigns[x] # l_Undef <=> Cardinality(TrailIndices(x)) = 1
        /\ \A i \in TrailIndices(x) : TrueIn(assigns, trail[i])

\* validate returned true after it unassigned the literal of a learnt unit
\* clause by hand and after it resurrected a unit clause whose literal is
\* still on the trail
C23_Witness ==
  /\ op = "validate" /\ ret /\ err = ""
  /\ \E i \in 1..Len(proof) :
        /\ ca[proof[i]].learnt /\ Len(ca[proof[i]].lits) = 1
        /\ assigns[var(ca[proof[i]].lits[1])] = l_Undef
  /\ \E i \in 1..Len(proof) :
        /\ ~ca[proof[i]].learnt /\ Len(ca[proof[i]].lits) = 1 /\ ca[proof[i]].mark = 0
        /\ TrailIndices(var(ca[proof[i]].lits[1])) # {}


\* ------------------------------------------------------------------------
\* C24: for every conflict that propagate returns at a decision level d > 0,
\* analyze returns without a failed assertion a clause whose first literal is
\* its only literal of level d, whose other literals are False, of pairwise
\* different variables (different from the first literal's too) and of a
\* level in 1..d-1, whose second literal has the greatest level among
\* out_learnt[1..], and out_btlevel is that level (0 for a clause of size
\* one); after cancelUntil(out_btlevel) the first literal is unassigned and
\* the other literals are still False.
\* ------------------------------------------------------------------------
Asserting(S, a) ==
  LET ol   == a.out_learnt
      d    == decisionLevel(S)
      T    == cancelUntil(a.st, a.out_btlevel)
  IN  /\ a.st.err = ""
      /\ Len(ol) >= 1
      /\ level(S, var(ol[1])) = d
      /\ \A i, j \in 1..Len(ol) : i # j => var(ol[i]) # var(ol[j])
      /\ \A i \in 2..Len(ol) : /\ value(S, ol[i]) = l_False
                               /\ level(S, var(ol[i])) \in 1..(d - 1)
                               /\ level(S, var(ol[i])) <= level(S, var(ol[2]))
      /\ a.out_btlevel = IF Len(ol) = 1 THEN 0 ELSE level(S, var(ol[2]))
      /\ value(T, ol[1]) = l_Undef
      /\ \A i \in 2..Len(ol) : value(T, ol[i]) = l_False

C24_LearntIsAsserting ==
  LET Analyzed(r) == (r.confl # CRef_Undef /\ decisionLevel(r.st) > 0)
                        => Asserting(r.st, analyze(r.st, r.confl))
  IN  (pc = "search" /\ err = "") => Analyzed(propagate(St, FALSE))


C24_Witness ==
  LET Shrunk(S, confl) ==
        /\ Len(analyze(S, confl).out_learnt) >= 2
        /\ Len(analyze(S, confl).out_learnt)
             < Len(analyze([S EXCEPT !.ccmin_mode = 0], confl).out_learnt)
      Analyzed(r) == /\ r.confl # CRef_Undef
                     /\ decisionLevel(r.st) >= 2
                     /\ Shrunk(r.st, r.confl)
  IN  /\ pc = "search"
      /\ err = ""
      /\ ccmin_mode = 2
      /\ conflicts < MaxConflicts
      /\ Analyzed(propagate(St, FALSE))


\* ------------------------------------------------------------------------
\* C25: every learnt clause is a logical consequence of the clauses passed
\* to add_clause: every total assignment that satisfies all of them satisfies
\* the learnt clause, whatever ccmin_mode is and whatever reduceDB removed.
\* ------------------------------------------------------------------------
Learnts == {cr \in DOMAIN ca : ca[cr].learnt}

ModelsOfAdded ==
  {a \in [1..Len(vardata) -> BOOLEAN] :
     \A k \in 1..Len(added) : \E i \in 1..Len(added[k]) : Holds(a, added[k][i])}

C25_LearntsFollow ==
  Learnts # {} =>
    \A a \in ModelsOfAdded : \A cr \in Learnts :
       \E i \in 1..Len(ca[cr].lits) : Holds(a, ca[cr].lits[i])

\* a learnt clause was removed by reduceDB and a clause of two or more
\* literals was learnt after it
C25_Witness ==
  /\ err = ""
  /\ \E cr, dr \in Learnts : /\ cr < dr
                             /\ ca[cr].mark = 1
                             /\ Len(ca[dr].lits) >= 2
                             /\ dr \in SetOf(learnts)


\* ------------------------------------------------------------------------
\* C26: seen[v] is 0 for every variable v whenever analyze, analyzeFinal,
\* validateLemma or traverseProof has returned after finding it so on entry:
\* in every state between two steps of the solver, and at every return of
\* validateLemma and of traverseProof inside validate and replay.
\* ------------------------------------------------------------------------
C26_SeenIsCleared ==
  /\ seenClear(St)
  /\ "validateLemma: seen" \notin broken
  /\ "traverseProof: seen" \notin broken


\* replay returned in a session with ccmin_mode 2: analyze had learnt a
\* clause of two or more literals, validateLemma had derived it again in
\* validate, and traverseProof handed its chain of a learnt clause and at
\* least one further antecedent to the visitor
C26_Witness ==
  /\ op = "replay" /\ err = ""
  /\ ccmin_mode = 2
  /\ \E k \in 1..Len(visitor.calls) :
        /\ visitor.calls[k].kind = "visitChainResolvent(CRef)"
        /\ visitor.calls[k].parent \in Learnts
        /\ Len(ca[visitor.calls[k].parent].lits) >= 2
        /\ Len(visitor.calls[k].clauses) >= 2


\* ------------------------------------------------------------------------
\* C27: a call of litRedundant that returns false leaves part unchanged and
\* seen and analyze_toclear exactly as they were on entry; a call that
\* returns true with log_proof leaves part joined with the partition of
\* every reason clause it visited and with trail_part of every level-0
\* literal of those clauses.  Checked for every call analyze makes with
\* ccmin_mode 2 for a conflict at a decision level above 0.
\* ------------------------------------------------------------------------
\* the join of range a with the ranges in Rs
JoinSet(a, Rs) ==
  [lo |-> CHOOSE m \in {a.lo} \cup {r.lo : r \in Rs} :
            \A n \in {a.lo} \cup {r.lo : r \in Rs} : m <= n,
   hi |-> CHOOSE m \in {a.hi} \cup {r.hi : r \in Rs} :
            \A n \in {a.hi} \cup {r.hi : r \in Rs} : m >= n]

\* the call litRedundant(p) made with analysis record A returned r
RedundantFrame(S, A, p, r) ==
  LET \* the variables whose reason clause the call visited: p's and those of
      \* the literals it pushed
      visited == {var(p)} \cup {var(r.a.toclear[j]) : j \in (Len(A.toclear) + 1)..Len(r.a.toclear)}
      tails   == {c \in {S.ca[reason(S, x)] : x \in visited} : TRUE}
      level0  == UNION {{var(c.lits[k]) : k \in {n \in 2..Len(c.lits) : level(S, var(c.lits[n])) = 0}}
                          : c \in tails}
  IN  /\ r.a.err = ""
      /\ ~r.ret => /\ r.a.part = A.part
                   /\ r.a.seen = A.seen
                   /\ r.a.toclear = A.toclear
      /\ (r.ret /\ S.log_proof) =>
             r.a.part = JoinSet(A.part, {c.part : c \in tails}
                                          \cup {S.trail_part[x] : x \in level0})

\* the calls of the filter loop of analyze over out_learnt[i..]
RECURSIVE RedundantCalls(_, _, _, _, _)
RedundantCalls(S, A, lits, i, abstract_levels) ==
  IF i > Len(lits) THEN TRUE
  ELSE IF reason(S, var(lits[i])) = CRef_Undef
       THEN RedundantCalls(S, A, lits, i + 1, abstract_levels)
       ELSE LET Called(r) == /\ RedundantFrame(S, A, lits[i], r)
                             /\ RedundantCalls(S, r.a, lits, i + 1, abstract_levels)
            IN  Called(litRedundant(S, A, lits[i], abstract_levels))

\* the analysis record when the do-while loop of analyze has ended and
\* out_learnt was copied to analyze_toclear
AtMinimize(S, confl) ==
  LET Copied(U) == [U.a EXCEPT !.toclear = << 0 - U.p >> \o U.a.out]
  IN  Copied(AnalyzeLoop(S, [seen |-> S.seen, pathC |-> 0, out |-> << >>,
                             part |-> IF S.log_proof THEN S.ca[confl].part ELSE RangeUndef,
                             toclear |-> << >>, err |-> S.err],
                         confl, lit_Undef, Len(S.trail)))

C27_LitRedundantFrame ==
  LET Calls(S, A) ==
        RedundantCalls(S, A, A.out, 1,
                       {abstractLevel(S, var(A.out[i])) : i \in 1..Len(A.out)})
      Analyzed(r) == (r.confl # CRef_Undef /\ decisionLevel(r.st) > 0)
                        => Calls(r.st, AtMinimize(r.st, r.confl))
  IN  (pc = "search" /\ err = "" /\ ccmin_mode = 2) => Analyzed(propagate(St, FALSE))


\* what the calls of the filter loop returned: ret, the number of literals
\* the call left pushed on analyze_toclear, and whether the first literal it
\* examined was one it pushes (unseen, of a level above 0 that is among
\* abstract_levels, with a reason)
RECURSIVE RedundantReturns(_, _, _, _, _)
RedundantReturns(S, A, lits, i, abstract_levels) ==
  IF i > Len(lits) THEN {}
  ELSE IF reason(S, var(lits[i])) = CRef_Undef
       THEN RedundantReturns(S, A, lits, i + 1, abstract_levels)
       ELSE LET Pushes(x) == /\ A.seen[x] = 0
                             /\ level(S, x) > 0
                             /\ reason(S, x) # CRef_Undef
                             /\ abstractLevel(S, x) \in abstract_levels
                Called(r) ==
                  {[ret |-> r.ret, pushed |-> Len(r.a.toclear) - Len(A.toclear),
                    entered |-> Pushes(var(S.ca[reason(S, var(lits[i]))].lits[2]))]}
                    \cup RedundantReturns(S, r.a, lits, i + 1, abstract_levels)
            IN  Called(litRedundant(S, A, lits[i], abstract_levels))

\* a conflict in whose analysis, with log_proof, a call of litRedundant
\* pushes a literal and then returns false
C27_Witness ==
  LET Returns(S, A) ==
        RedundantReturns(S, A, A.out, 1,
                         {abstractLevel(S, var(A.out[i])) : i \in 1..Len(A.out)})
      Analyzed(r) == /\ r.confl # CRef_Undef
                     /\ decisionLevel(r.st) > 0
                     /\ \E c \in Returns(r.st, AtMinimize(r.st, r.confl)) :
                           ~c.ret /\ c.entered
  IN  /\ pc = "search" /\ err = "" /\ ccmin_mode = 2 /\ log_proof
      /\ conflicts < MaxConflicts
      /\ Analyzed(propagate(St, FALSE))


\* ------------------------------------------------------------------------
\* C28: with log_proof, add_clause, solve and search only append to proof,
\* and every entry they append is one of three: the learn entry of a learnt
\* clause allocated in this step, which has no other entry and is the reason
\* of its first literal when the step ends; the deletion entry of a clause
\* that existed with mark 0 and now has mark 1, logged once in the step and,
\* for a learnt clause, after its learn entry; or the conflict clause of a
\* call that leaves ok false, as the last entry.  Every learnt clause
\* allocated has its learn entry, and no mark goes back from 1, so no clause
\* is logged as deleted twice and a clause of add_clause occurs in proof
\* only as a deletion entry or as the final conflict clause.
\* ------------------------------------------------------------------------
Entries(pr, cr) == {i \in 1..Len(pr) : pr[i] = cr}

LearnEntry(cr) ==
  /\ cr \notin DOMAIN ca
  /\ ca'[cr].learnt
  /\ Cardinality(Entries(proof', cr)) = 1
  /\ vardata'[var(ca'[cr].lits[1])].reason = cr

DeletionEntry(cr) ==
  /\ cr \in DOMAIN ca
  /\ ca[cr].mark = 0
  /\ ca'[cr].mark = 1
  /\ Cardinality(Entries(proof', cr)) = Cardinality(Entries(proof, cr)) + 1
  /\ ca[cr].learnt => Entries(proof, cr) # {}

FinalEntry(i) ==
  /\ i = Len(proof')
  /\ ~ok'
  /\ pc' = "idle"

C28_Step ==
  (log_proof /\ pc' \in {"idle", "search"}) =>
     /\ Len(proof') >= Len(proof)
     /\ SubSeq(proof', 1, Len(proof)) = proof
     /\ \A cr \in DOMAIN ca : cr \in DOMAIN ca' /\ (ca[cr].mark = 1 => ca'[cr].mark = 1)
     /\ \A cr \in DOMAIN ca' \ DOMAIN ca : ca'[cr].learnt => Entries(proof', cr) # {}
     /\ \A i \in (Len(proof) + 1)..Len(proof') :
          LearnEntry(proof'[i]) \/ DeletionEntry(proof'[i]) \/ FinalEntry(i)

C28_ProofLogOrder == [][C28_Step]_vars


\* before validate: a learnt clause has its learn entry and its deletion
\* entry in proof, and a clause of add_clause has a deletion entry
C28_Witness ==
  /\ log_proof /\ err = "" /\ pc \in {"idle", "search"}
  /\ \E cr \in Learnts : ca[cr].mark = 1 /\ Cardinality(Entries(proof, cr)) = 2
  /\ \E cr \in Originals : ca[cr].mark = 1 /\ Cardinality(Entries(proof, cr)) = 1


\* ------------------------------------------------------------------------
\* C29: once asynch_interrupt is set while solve runs, an iteration of the
\* loop of search whose propagate returns no conflict makes no decision,
\* cancels to level 0 and returns l_Undef, and solve returns Unknown without
\* another call of search; an iteration whose propagate returns a conflict
\* ends the solve with Unsat and ok false at level 0, and otherwise learns a
\* clause, lowers the decision level and makes no restart.  So a solve that
\* is interrupted returns, with Unknown or, after a conflict at level 0,
\* with Unsat.
\* ------------------------------------------------------------------------
Level0(S) == IF S.trail_lim = << >> THEN S.trail ELSE SubSeq(S.trail, 1, S.trail_lim[1])

C29_Step ==
  LET Propagated(r) ==
        IF r.confl = CRef_Undef
        THEN /\ pc' = "idle" /\ op' = "solve"
             /\ status' = l_Undef
             /\ trail_lim' = << >>
             /\ trail' = Level0(r.st)
             /\ ok' = ok
        ELSE IF decisionLevel(r.st) = 0
        THEN /\ pc' = "idle" /\ op' = "solve"
             /\ status' = l_False
             /\ ~ok'
        ELSE /\ pc' = "search"
             /\ conflicts' = conflicts + 1
             /\ Len(trail_lim') < Len(trail_lim)
             /\ curr_restarts' = curr_restarts
  IN  (pc = "search" /\ asynch_interrupt /\ err = "") =>
         /\ asynch_interrupt'
         /\ Propagated(propagate(St, FALSE))

C29_InterruptedSolveReturns ==
  /\ [][C29_Step]_vars
  /\ (pc = "search" /\ asynch_interrupt)
        ~> (pc = "idle" /\ op = "solve" /\ status \in {l_Undef, l_False})

\* the interrupted solve has returned Unknown after a conflict that was
\* analysed while the flag was set: the learnt clause's first literal is on
\* the trail at level 0 and no restart was counted
C29_Witness ==
  /\ pc = "idle" /\ op = "solve" /\ status = l_Undef /\ err = ""
  /\ asynch_interrupt
  /\ conflicts >= 1
  /\ trail # << >>
  /\ \E i \in 1..Len(trail) : vardata[var(trail[i])].reason \in Learnts
  /\ assumptions # << >>


\* C29 as stated: a solve during which the flag was set returns Unknown, or
\* Unsat after a conflict at level 0.
C29_ReturnsUnknown ==
  (pc = "idle" /\ op = "solve" /\ asynch_interrupt) =>
     \/ status = l_Undef
     \/ status = l_False /\ ~ok


\* ------------------------------------------------------------------------
\* C30: when validate returns true, every learnt clause with an entry in
\* proof before the last one has mark 1 and is detached, every clause of
\* add_clause that was in proof as a deletion entry (it had mark 1 when
\* validate was entered) has mark 0 and, if it has more than one literal, is
\* attached, and the trail is a prefix of the trail validate was entered
\* with, at decision level 0 with qhead at its end.
\* ------------------------------------------------------------------------
C30_Step ==
  (op' = "validate" /\ ret' /\ err' = "") =>
     /\ \A i \in 1..(Len(proof) - 1) :
          ca[proof[i]].learnt => /\ ca'[proof[i]].mark = 1
                                 /\ ~ca'[proof[i]].attached
     /\ \A i \in 1..Len(proof) :
          (~ca[proof[i]].learnt /\ ca[proof[i]].mark = 1) =>
              /\ ca'[proof[i]].mark = 0
              /\ Len(ca[proof[i]].lits) > 1 => ca'[proof[i]].attached
     /\ proof' = proof
     /\ Len(trail') <= Len(trail)
     /\ trail' = SubSeq(trail, 1, Len(trail'))
     /\ trail_lim' = << >>
     /\ qhead' = Len(trail')

C30_ValidateLeavesProofClauses == [][C30_Step]_vars

\* validate returned true after it resurrected a clause of add_clause and
\* deleted a learnt clause of two or more literals
C30_Witness ==
  /\ op = "validate" /\ ret /\ err = ""
  /\ \E i \in 1..(Len(proof) - 1) :
        ~ca[proof[i]].learnt /\ ca[proof[i]].mark = 0
  /\ \E i \in 1..(Len(proof) - 1) :
        /\ ca[proof[i]].learnt /\ ca[proof[i]].mark = 1
        /\ Len(ca[proof[i]].lits) >= 2
        /\ ~ca[proof[i]].attached
  /\ trail # << >>


\* ------------------------------------------------------------------------
\* C31: when validate returns true, the final conflict clause is core, the
\* reason each of its literals had when validate was entered is core, and
\* for every literal left on the trail whose reason clause is core, the
\* reason clause of every other literal of that clause is core too.
\* ------------------------------------------------------------------------
C31_Step ==
  LET last == proof[Len(proof)]
      CoreReason(vd, x) == vd[x].reason # CRef_Undef /\ ca'[vd[x].reason].core
  IN  (op' = "validate" /\ ret' /\ err' = "") =>
         /\ ca'[last].core
         /\ \A i \in 1..Len(ca[last].lits) : CoreReason(vardata, var(ca[last].lits[i]))
         /\ \A i \in 1..Len(trail') :
              CoreReason(vardata', var(trail'[i])) =>
                 \A j \in 2..Len(ca'[vardata'[var(trail'[i])].reason].lits) :
                    CoreReason(vardata', var(ca'[vardata'[var(trail'[i])].reason].lits[j]))

C31_CoreClosedUnderReasons == [][C31_Step]_vars

\* validate returned true and left on the trail a literal whose reason is a
\* core clause of two or more literals, the reason of one of them a clause
\* that is not the final conflict clause nor the reason of one of its literals
C31_Witness ==
  /\ op = "validate" /\ ret /\ err = ""
  /\ \E i \in 1..Len(trail) :
        LET r == vardata[var(trail[i])].reason IN
        /\ r # CRef_Undef
        /\ ca[r].core
        /\ Len(ca[r].lits) >= 2
        /\ \E j \in 2..Len(ca[r].lits) :
              LET rr == vardata[var(ca[r].lits[j])].reason IN
              /\ rr # proof[Len(proof)]
              /\ \A k \in 1..Len(ca[proof[Len(proof)]].lits) :
                    vardata[var(ca[proof[Len(proof)]].lits[k])].reason # rr


\* ------------------------------------------------------------------------
\* C32: in a replay that follows a successful validate of the proof of one
\* solve, no assertion of replay fails: the first propagate(true) returns no
\* conflict, c[0] of every proof entry that is core with mark 1 is
\* unassigned when its literals are assumed and when it is enqueued as a
\* unit, and propagate(true) after the assumption returns a conflict clause,
\* which is core.
\* ------------------------------------------------------------------------
C32_ReplayAssertionsHold ==
  (op = "replay" /\ solves = 1) =>
     /\ "replay: confl == CRef_Undef" \notin broken
     /\ "replay: value (c[0]) == l_Undef" \notin broken
     /\ "replay: p != CRef_Undef" \notin broken
     /\ "replay: conflict clause is core" \notin broken

\* replay of the proof of one solve ran to its end and derived a core entry
\* of two or more literals from a conflict clause, which is core
C32_Witness ==
  /\ op = "replay" /\ err = "" /\ solves = 1
  /\ \E i \in 1..Len(visitor.calls) :
        /\ visitor.calls[i].kind = "visitChainResolvent(CRef)"
        /\ visitor.calls[i].parent # CRef_Undef
        /\ Len(ca[visitor.calls[i].parent].lits) >= 2
        /\ ca[visitor.calls[i].parent].core
        /\ ca[visitor.calls[i].parent].mark = 0
        /\ ca[visitor.calls[i].clauses[1]].core

\* ------------------------------------------------------------------------
\* C33: in every chain that traverseProof hands to visitChainResolvent,
\* chainClauses[0] is the conflict clause, chainClauses[i+1] is the reason
\* of var(chainPivots[i]) and has chainPivots[i] as its literal 0 for every
\* i < |chainClauses|-1, and every pivot from index |chainClauses|-1 on is a
\* literal of the trail at level 0; so |chainPivots| >= |chainClauses|-1 and
\* the pivots paired with a clause come before the unit pivots.
\* ------------------------------------------------------------------------
C33_ChainIsPaired == "traverseProof: chain" \notin broken

\* replay ran to its end, and traverseProof handed over a chain of the
\* conflict clause, a reason clause and, after its pivot, a pivot that is a
\* level-0 literal
C33_Witness ==
  /\ op = "replay" /\ err = ""
  /\ \E k \in 1..Len(visitor.calls) :
        /\ visitor.calls[k].kind = "visitChainResolvent(CRef)"
        /\ visitor.calls[k].parent # CRef_Undef
        /\ Len(visitor.calls[k].clauses) >= 2
        /\ Len(visitor.calls[k].pivots) >= Len(visitor.calls[k].clauses)


\* ------------------------------------------------------------------------
\* C34: over the calls of labelLevel0 within one replay no index of the
\* trail is inspected twice, so that no two resolvents are emitted for the
\* same literal of the trail, and no index below 0 is read.
\* ------------------------------------------------------------------------
C34_EachIndexOnce ==
  /\ err # "labelLevel0: trail[-1] read"
  /\ \A i, j \in 1..Len(visitor.calls) :
        ( /\ i # j
          /\ visitor.calls[i].kind \in {"visitResolvent", "visitChainResolvent(Lit)"}
          /\ visitor.calls[j].kind \in {"visitResolvent", "visitChainResolvent(Lit)"} )
        => visitor.calls[i].parent # visitor.calls[j].parent


\* ------------------------------------------------------------------------
\* C35: add_clause, called with ok set and a clause that is not empty, has
\* no True literal and no complementary pair.  With log_proof it stores a
\* clause that holds every distinct literal of the input exactly once, the
\* literals that are not False at level 0 before the False ones; the clause
\* is attached with watches exactly if two or more literals are not False,
\* is in clauses and is the reason of its first literal, which is enqueued,
\* if exactly one is not False, and is appended to proof as the conflict,
\* with ok cleared, if none is.  Without log_proof a stored clause holds
\* exactly the literals that are not False.
\* ------------------------------------------------------------------------
C35_Step ==
  LET in == added'[Len(added')]
      NotFalse == {l \in SetOf(in) : value(St, l) # l_False}
      cr == Len(ca) + 1
      Stores == Len(ca') = Len(ca) + 1
      Enqueued(l, r) == /\ \E k \in 1..Len(trail') : trail'[k] = l
                        /\ vardata'[var(l)].reason = r
      LogProof ==
        /\ Stores
        /\ SetOf(ca'[cr].lits) = SetOf(in)
        /\ Len(ca'[cr].lits) = Cardinality(SetOf(in))
        /\ \A i, j \in 1..Len(ca'[cr].lits) :
              (i < j /\ value(St, ca'[cr].lits[i]) = l_False)
                 => value(St, ca'[cr].lits[j]) = l_False
        /\ ca'[cr].attached <=> Cardinality(NotFalse) >= 2
        /\ ca'[cr].attached => Watched(watches', ca'[cr], cr)
        /\ Cardinality(NotFalse) >= 1 =>
              /\ clauses' = Append(clauses, cr)
              /\ proof' = proof
        /\ Cardinality(NotFalse) = 1 => Enqueued(ca'[cr].lits[1], cr)
        /\ Cardinality(NotFalse) = 0 =>
              /\ proof' = Append(proof, cr)
              /\ clauses' = clauses
              /\ ~ok' /\ ~ret'
      NoLogProof ==
        /\ Cardinality(NotFalse) >= 2 =>
              /\ Stores
              /\ SetOf(ca'[cr].lits) = NotFalse
              /\ Len(ca'[cr].lits) = Cardinality(NotFalse)
              /\ ca'[cr].attached
              /\ Watched(watches', ca'[cr], cr)
              /\ clauses' = Append(clauses, cr)
        /\ Cardinality(NotFalse) = 1 =>
              /\ Len(ca') = Len(ca)
              /\ \A l \in NotFalse : Enqueued(l, CRef_Undef)
        /\ Cardinality(NotFalse) = 0 => Len(ca') = Len(ca) /\ ~ok' /\ ~ret'
        /\ proof' = proof
  IN  ( /\ op' = "add_clause" /\ Len(added') = Len(added) + 1
        /\ ok /\ err' = ""
        /\ in # << >>
        /\ \A l \in SetOf(in) : value(St, l) # l_True /\ (0 - l) \notin SetOf(in) )
      => IF log_proof THEN LogProof ELSE NoLogProof

C35_AddClauseStores == [][C35_Step]_vars

\* add_clause with log_proof has stored a clause for an input with a
\* repeated literal: its first literal is enqueued with the clause as its
\* reason, and its last literal is False
C35_Witness ==
  /\ op = "add_clause" /\ err = "" /\ log_proof /\ ok
  /\ Len(added) >= 1
  /\ Len(Last(added)) > Cardinality(SetOf(Last(added)))
  /\ Len(ca) >= 1
  /\ SetOf(ca[Len(ca)].lits) = SetOf(Last(added))
  /\ Len(ca[Len(ca)].lits) >= 2
  /\ vardata[var(ca[Len(ca)].lits[1])].reason = Len(ca)
  /\ value(St, Last(ca[Len(ca)].lits)) = l_False


\* ------------------------------------------------------------------------
\* C36: every unassigned decision variable is in the order heap, between
\* the calls of the solver (after validate and replay too), between the
\* iterations of search and where search calls pickBranchLit; and when search
\* returns l_True, so that solve returns Sat, every variable has a value in
\* the model.
\* ------------------------------------------------------------------------
C36_HeapHoldsUnassigned ==
  /\ heapHolds(St)
  /\ "pickBranchLit: order_heap" \notin broken
  /\ (op = "solve" /\ pc = "idle" /\ status = l_True) =>
        /\ Len(model) = Len(assigns)
        /\ \A x \in 1..Len(model) : model[x] # l_Undef

\* search is between two iterations after a random pick: the variable of a
\* decision is still in the order heap, and a variable unassigned by an
\* earlier cancelUntil is in it again
C36_Witness ==
  /\ pc = "search" /\ err = ""
  /\ conflicts >= 1
  /\ \E i \in 1..Len(trail) :
        /\ vardata[var(trail[i])].reason = CRef_Undef
        /\ vardata[var(trail[i])].level > 0
        /\ var(trail[i]) \in order_heap
  /\ \E x \in 1..Len(assigns) : assigns[x] = l_Undef
====
